---- MODULE Spec2Model ----
(***************************************************************************)
(* A model of xmlsql: the streaming ingest pipeline (src/src/parse.rs,     *)
(* src/src/builder.rs), the document store's read surface                  *)
(* (src/src/document.rs), the type inferencer (src/src/infer.rs) and the   *)
(* redactor (src/src/redact.rs).                                           *)
(*                                                                         *)
(* Option<T> is modelled as a sequence: None is <<>>, Some(x) is <<x>>.    *)
(***************************************************************************)
EXTENDS Integers, Sequences, FiniteSets, TLC

None == <<>>

Some(x) == <<x>>

\* ------------------------------------------------------------------------
\* Bounds of the model
\* ------------------------------------------------------------------------

\* longest token stream the tokenizer yields in the pipeline specification
MaxTokens == 5

\* capacity of the bounded channel in the model (1000000 in parse.rs:151)
ChanCap == 2

\* ------------------------------------------------------------------------
\* NodeType (document.rs:627-638)
\* ------------------------------------------------------------------------

Document == 0

Element == 1

Text == 2

CData == 3

Comment == 4

Declaration == 5

Doctype == 6

ProcessingInstruction == 7

\* ------------------------------------------------------------------------
\* Strings.  str::trim and str::to_lowercase on the strings of the model.
\* ------------------------------------------------------------------------

Trim(s) ==
    CASE s = " " -> ""
      [] s = " Hi " -> "Hi"
      [] s = " hi " -> "hi"
      [] s = " 42 " -> "42"
      [] OTHER -> s

ToLower(s) ==
    CASE s = "A" -> "a"
      [] s = "P" -> "p"
      [] s = "X" -> "x"
      [] s = "Hi" -> "hi"
      [] s = " Hi " -> " hi "
      [] OTHER -> s

\* parse.rs:139-146
mutate_text(text, options) ==
    CASE options.ignore_whitespace /\ options.case_insensitive -> ToLower(Trim(text))
      [] options.ignore_whitespace /\ ~options.case_insensitive -> Trim(text)
      [] ~options.ignore_whitespace /\ options.case_insensitive -> ToLower(text)
      [] OTHER -> text

\* ------------------------------------------------------------------------
\* The tokenizer (xmlparser::Tokenizer, driven at parse.rs:199).  A token is
\* a record; the fields a kind does not use are "".
\* ------------------------------------------------------------------------

Tok(kind, prefix, local, text) ==
    [kind |-> kind, prefix |-> prefix, local |-> local, text |-> text]

\* element names (prefix, local) of the documents of the pipeline
ElemNames == {<<"", "r">>, <<"P", "A">>}

\* attributes (prefix, local, value) of the documents of the pipeline
AttrTriples == {<<"P", "X", "Hi">>}

\* character data of Text tokens (never empty), CDATA sections and comments
TextVals == {" Hi "}

CdataVals == {""}

CommentVals == {" "}

\* The tokens the tokenizer can yield next, by its state.  The declaration
\* is only accepted at offset 0, at most one doctype precedes the root
\* element, character data only occurs inside an element, and only
\* comments and processing instructions follow the root element.
NextKinds(ts) ==
    CASE ts.state = "Declaration" -> {"Declaration"}
      [] ts.state = "AfterDeclaration" ->
            {"DtdStart", "EmptyDtd", "Comment", "ProcessingInstruction", "ElementStart"}
      [] ts.state = "Dtd" ->
            {"EntityDeclaration", "DtdEnd", "Comment", "ProcessingInstruction"}
      [] ts.state = "AfterDtd" -> {"Comment", "ProcessingInstruction", "ElementStart"}
      [] ts.state = "Attributes" -> {"Attribute", "ElementEnd"}
      [] ts.state = "Elements" ->
            {"Comment", "ProcessingInstruction", "Cdata", "Text", "ElementStart",
             "ElementEnd"}
      [] ts.state = "AfterElements" -> {"Comment", "ProcessingInstruction"}
      [] OTHER -> {}

\* An ElementEnd is "Open" (>) or "Empty" (/>) in a start tag and "Close"
\* (</name>) between elements; a Text token is never empty.
TokenAllowed(ts, tok) ==
    /\ tok.kind \in NextKinds(ts)
    /\ tok.kind = "ElementEnd" =>
          IF ts.state = "Attributes" THEN tok.text \in {"Open", "Empty"}
          ELSE tok.text = "Close"
    /\ tok.kind = "Text" => tok.text # ""
    /\ tok.kind \in {"ElementStart", "Attribute"} => tok.local # ""

\* the tokens of the documents of the pipeline
PipelineTokens ==
    {Tok("ElementStart", n[1], n[2], "") : n \in ElemNames}
        \cup {Tok("Attribute", a[1], a[2], a[3]) : a \in AttrTriples}
        \cup {Tok("Text", "", "", t) : t \in TextVals}
        \cup {Tok("Cdata", "", "", t) : t \in CdataVals}
        \cup {Tok("Comment", "", "", t) : t \in CommentVals}
        \cup {Tok(k, "", "", "") : k \in {"Declaration", "ProcessingInstruction",
                                          "DtdStart", "EmptyDtd", "EntityDeclaration",
                                          "DtdEnd"}}
        \cup {Tok("ElementEnd", "", "", e) : e \in {"Open", "Empty", "Close"}}

NextTokens(ts) == {tok \in PipelineTokens : TokenAllowed(ts, tok)}

\* The tokenizer's state after it yielded tok.
TokenizerStep(ts, tok) ==
    CASE tok.kind = "Declaration" -> [ts EXCEPT !.state = "AfterDeclaration"]
      [] tok.kind = "DtdStart" -> [ts EXCEPT !.state = "Dtd"]
      [] tok.kind \in {"EmptyDtd", "DtdEnd"} -> [ts EXCEPT !.state = "AfterDtd"]
      [] tok.kind = "ElementStart" -> [ts EXCEPT !.state = "Attributes"]
      [] tok.kind = "ElementEnd" /\ tok.text = "Open" ->
            [state |-> "Elements", depth |-> ts.depth + 1]
      [] tok.kind = "ElementEnd" /\ tok.text = "Empty" ->
            [ts EXCEPT !.state = IF ts.depth = 0 THEN "AfterElements" ELSE "Elements"]
      [] tok.kind = "ElementEnd" /\ tok.text = "Close" ->
            [state |-> IF ts.depth - 1 = 0 THEN "AfterElements" ELSE "Elements",
             depth |-> ts.depth - 1]
      [] OTHER -> ts

\* A document may start without a declaration: the tokenizer then moves on
\* to the states after it without yielding a token.
StartStates == {"Declaration", "AfterDeclaration"}

\* ------------------------------------------------------------------------
\* Type inference (infer.rs).  The parsers of the libraries are modelled by
\* the sets of the model's strings they accept; the order of the tests is
\* the order of infer_type.
\* ------------------------------------------------------------------------

NilUuid == "00000000-0000-0000-0000-000000000000"

UuidA == "6ba7b810-9dad-11d1-80b4-00c04fd430c8"

UuidB == "6ba7b811-9dad-11d1-80b4-00c04fd430c8"

BooleanStrs == {"true", "TRUE", "false"}

ParsesU64 == {"42", "0"}

ParsesF64 == {"42", "0", "0.123", "1.5"}

ParsesUuid == {NilUuid, UuidA, UuidB}

ParsesDateTime == {"1970-01-01T00:00:00Z", "2020-02-02T10:30:00Z"}

ParsesTime == {"00:00:00", "10:30:00"}

ParsesDate == {"1970-01-01", "2020-02-02"}

ParsesDuration == {"P1D"}

ParsesJson == {"{}", " 42 ", "42", "0", "0.123", "1.5", "true", "false", "null"}

\* infer.rs:103-161 followed by Inferred::as_type and InferredType::as_str
infer_type(input) ==
    IF input = "" THEN "empty"
    ELSE IF Trim(input) = "" THEN "whitespace"
    ELSE IF input \in BooleanStrs THEN "boolean"
    ELSE IF input \in ParsesU64 THEN "int"
    ELSE IF input \in ParsesF64 THEN "float"
    ELSE IF input \in ParsesUuid THEN "uuid"
    ELSE IF input \in ParsesDateTime THEN "datetime"
    ELSE IF input \in ParsesTime THEN "time"
    ELSE IF input \in ParsesDate THEN "date"
    ELSE IF input \in ParsesDuration THEN "duration"
    ELSE IF input \in ParsesJson THEN "json"
    ELSE "string"

\* ------------------------------------------------------------------------
\* The producer's parser state (parse.rs:50-109) with the id counter of
\* parse.rs:196:  [stack, order, context_order, node_id_count].
\* A stack frame is [tag |-> "Root" | "Element", id |-> node id].
\* ------------------------------------------------------------------------

ParserState0 ==
    [stack |-> <<>>, order |-> <<>>, context_order |-> 0, node_id_count |-> 2]

\* parse.rs:66-71; the Document state is the empty stack
current(ps) ==
    IF ps.stack = <<>> THEN [tag |-> "Document", id |-> 0]
    ELSE ps.stack[Len(ps.stack)]

\* parse.rs:74-79
current_order(ps) ==
    IF ps.order = <<>> THEN ps.context_order ELSE ps.order[Len(ps.order)]

\* parse.rs:82-87
increment_order(ps) ==
    IF ps.order = <<>> THEN [ps EXCEPT !.context_order = @ + 1]
    ELSE [ps EXCEPT !.order[Len(ps.order)] = @ + 1]

\* parent_node_id without the Root arm
parent_node_id_noroot(ps) ==
    IF current(ps).tag = "Element" THEN current(ps).id ELSE 0

\* parse.rs:90-96
parent_node_id(ps) ==
    CASE current(ps).tag = "Document" -> 0
      [] current(ps).tag = "Root" -> 1
      [] OTHER -> current(ps).id

\* parse.rs:99-102
push(ps, value) ==
    [ps EXCEPT !.stack = Append(@, value), !.order = Append(@, 0)]

\* parse.rs:105-108; Vec::pop on an empty vector does nothing
pop(ps) ==
    IF ps.stack = <<>> THEN ps
    ELSE [ps EXCEPT !.stack = SubSeq(@, 1, Len(@) - 1),
                    !.order = SubSeq(@, 1, Len(@) - 1)]

\* ------------------------------------------------------------------------
\* Messages (builder.rs:20-106, parse.rs:133-137)
\* ------------------------------------------------------------------------

InsertNode(node_id, parent, node_type, node_ns, node_name, node_value, pos, node_order) ==
    [kind |-> "InsertNode", node_id |-> node_id, parent_node_id |-> parent,
     node_type |-> node_type, ns |-> node_ns, name |-> node_name,
     node_value |-> node_value, attr_value |-> "",
     buffer_position |-> pos, order |-> node_order]

InsertAttr(parent, attr_ns, attr_name, attr_value, pos, attr_order) ==
    [kind |-> "InsertAttr", node_id |-> 0, parent_node_id |-> parent,
     node_type |-> Document, ns |-> attr_ns, name |-> Some(attr_name),
     node_value |-> None, attr_value |-> attr_value,
     buffer_position |-> pos, order |-> attr_order]

InsertRootElement(node_ns, node_name, pos, node_order) ==
    [kind |-> "InsertRootElement", node_id |-> 0, parent_node_id |-> 0,
     node_type |-> Document, ns |-> node_ns, name |-> node_name,
     node_value |-> None, attr_value |-> "",
     buffer_position |-> pos, order |-> node_order]

\* What the producer does with one token: [ps |-> the parser state after
\* it, msgs |-> the messages it sends].
Handled(ps, msgs) == [ps |-> ps, msgs |-> msgs]

\* parse_start_event without the Document branch: the root element is sent
\* as an ordinary InsertNode
parse_start_event_noroot(local_name, prefix, position, ps) ==
    Handled(push(increment_order([ps EXCEPT !.node_id_count = @ + 1]),
                 [tag |-> "Element", id |-> ps.node_id_count]),
            <<InsertNode(ps.node_id_count, parent_node_id(ps), Element,
                         prefix, Some(local_name), None, position,
                         current_order(ps))>>)

\* parse_start_event pushing the id counter after the increment
parse_start_event_late(local_name, prefix, position, ps) ==
    IF current(ps).tag = "Document"
    THEN Handled(push(increment_order(ps), [tag |-> "Root", id |-> 1]),
                 <<InsertRootElement(prefix, Some(local_name), position,
                                     current_order(ps))>>)
    ELSE Handled(push(increment_order([ps EXCEPT !.node_id_count = @ + 1]),
                      [tag |-> "Element", id |-> ps.node_id_count + 1]),
                 <<InsertNode(ps.node_id_count, parent_node_id(ps), Element,
                              prefix, Some(local_name), None, position,
                              current_order(ps))>>)

\* parse.rs:8-48
parse_start_event(local_name, prefix, position, ps) ==
    IF current(ps).tag = "Document"
    THEN Handled(push(increment_order(ps), [tag |-> "Root", id |-> 1]),
                 <<InsertRootElement(prefix, Some(local_name), position,
                                     current_order(ps))>>)
    ELSE Handled(push(increment_order([ps EXCEPT !.node_id_count = @ + 1]),
                      [tag |-> "Element", id |-> ps.node_id_count]),
                 <<InsertNode(ps.node_id_count, parent_node_id(ps), Element,
                              prefix, Some(local_name), None, position,
                              current_order(ps))>>)

\* emit_node without node_id_count += 1
emit_node_same_id(ps, node_type, node_value, position) ==
    Handled(increment_order(ps),
            <<InsertNode(ps.node_id_count, parent_node_id(ps), node_type,
                         None, None, node_value, position, current_order(ps))>>)

\* parse.rs:206-265 and 329-364: the tokens that become one node
emit_node(ps, node_type, node_value, position) ==
    Handled(increment_order([ps EXCEPT !.node_id_count = @ + 1]),
            <<InsertNode(ps.node_id_count, parent_node_id(ps), node_type,
                         None, None, node_value, position, current_order(ps))>>)

\* parse.rs:241-245, 336-340, 354-358
node_text(text, options) ==
    IF options.ignore_whitespace THEN Trim(text) ELSE text

\* parse.rs:201-365, one iteration of the token loop
handle_token(ps, tok, position, options) ==
    CASE tok.kind = "Declaration" -> emit_node(ps, Declaration, None, position)
      [] tok.kind = "ProcessingInstruction" ->
            emit_node(ps, ProcessingInstruction, None, position)
      [] tok.kind = "Comment" ->
            emit_node(ps, Comment, Some(node_text(tok.text, options)), position)
      [] tok.kind = "DtdStart" -> emit_node(ps, Doctype, None, position)
      [] tok.kind \in {"EmptyDtd", "EntityDeclaration", "DtdEnd"} -> Handled(ps, <<>>)
      [] tok.kind = "ElementStart" ->
            parse_start_event(mutate_text(tok.local, options),
                              IF tok.prefix # "" THEN Some(mutate_text(tok.prefix, options))
                              ELSE None,
                              position, ps)
      [] tok.kind = "Attribute" ->
            Handled(increment_order(ps),
                    <<InsertAttr(parent_node_id(ps),
                                 IF tok.prefix # "" THEN Some(mutate_text(tok.prefix, options))
                                 ELSE None,
                                 IF tok.local # "" THEN mutate_text(tok.local, options) ELSE "",
                                 tok.text, position, current_order(ps))>>)
      [] tok.kind = "ElementEnd" ->
            IF tok.text = "Open" THEN Handled(ps, <<>>) ELSE Handled(pop(ps), <<>>)
      [] tok.kind = "Text" ->
            emit_node(ps, Text, Some(node_text(tok.text, options)), position)
      [] OTHER \* Cdata
            -> emit_node(ps, CData, Some(node_text(tok.text, options)), position)

\* ------------------------------------------------------------------------
\* The store: nodes is a function from node_id to the row, attrs a sequence
\* of rows whose index is the attr_id (INTEGER PRIMARY KEY, assigned by the
\* engine from 1).  inferred_type is None in a store without the column.
\* ------------------------------------------------------------------------

NodeRow(parent, node_order, node_type, node_ns, node_name, node_value, pos, ity) ==
    [parent_node_id |-> parent, node_order |-> node_order, node_type |-> node_type,
     node_ns |-> node_ns, node_name |-> node_name, node_value |-> node_value,
     buffer_position |-> pos, inferred_type |-> ity]

\* document.rs:66-69 (SQL_SIMPLE) and 102-105 (SQL_WITH_TYPES)
SentinelRows(infer_types) ==
    LET ity == IF infer_types THEN Some("empty") ELSE None
    IN  (0 :> NodeRow(0, 0, Document, None, None, None, 0, ity))
        @@ (1 :> NodeRow(0, 0, Element, None, None, None, 0, ity))

\* document.rs:129-150
EmptyStore(infer_types) == [nodes |-> SentinelRows(infer_types), attrs |-> <<>>]

\* builder.rs:126-183; the INSERT fails on a node_id that is already a key.
\* Foreign keys are declared but not enforced (no PRAGMA foreign_keys).
insert_node(db, m, infer_types) ==
    IF m.node_id \in DOMAIN db.nodes
    THEN [ok |-> FALSE, db |-> db]
    ELSE [ok |-> TRUE,
          db |-> [db EXCEPT !.nodes = @ @@ (m.node_id :>
                    NodeRow(m.parent_node_id, m.order, m.node_type, m.ns, m.name,
                            m.node_value, m.buffer_position,
                            IF infer_types
                            THEN Some(IF m.node_value # None
                                      THEN infer_type(m.node_value[1])
                                      ELSE "empty")
                            ELSE None))]]

\* insert_attr on a table with a unique (parent_node_id, attr_ns,
\* attr_name): the second attribute of a name is dropped
insert_attr_dedup(db, m, infer_types) ==
    IF \E k \in 1..Len(db.attrs) : /\ db.attrs[k].parent_node_id = m.parent_node_id
                                   /\ db.attrs[k].attr_ns = m.ns
                                   /\ db.attrs[k].attr_name = m.name[1]
    THEN [ok |-> TRUE, db |-> db]
    ELSE [ok |-> TRUE,
          db |-> [db EXCEPT !.attrs = Append(@,
                    [parent_node_id |-> m.parent_node_id, attr_order |-> m.order,
                     attr_ns |-> m.ns, attr_name |-> m.name[1],
                     attr_value |-> m.attr_value,
                     buffer_position |-> m.buffer_position,
                     inferred_type |-> IF infer_types THEN Some(infer_type(m.attr_value))
                                       ELSE None])]]

\* insert_attr classifying the trimmed value
insert_attr_trimmed(db, m, infer_types) ==
    [ok |-> TRUE,
     db |-> [db EXCEPT !.attrs = Append(@,
                [parent_node_id |-> m.parent_node_id, attr_order |-> m.order,
                 attr_ns |-> m.ns, attr_name |-> m.name[1],
                 attr_value |-> m.attr_value,
                 buffer_position |-> m.buffer_position,
                 inferred_type |-> IF infer_types
                                   THEN Some(infer_type(Trim(m.attr_value)))
                                   ELSE None])]]

\* builder.rs:186-230
insert_attr(db, m, infer_types) ==
    [ok |-> TRUE,
     db |-> [db EXCEPT !.attrs = Append(@,
                [parent_node_id |-> m.parent_node_id, attr_order |-> m.order,
                 attr_ns |-> m.ns, attr_name |-> m.name[1],
                 attr_value |-> m.attr_value,
                 buffer_position |-> m.buffer_position,
                 inferred_type |-> IF infer_types THEN Some(infer_type(m.attr_value))
                                   ELSE None])]]

\* builder.rs:233-253
insert_root_element(db, m) ==
    [ok |-> TRUE,
     db |-> [db EXCEPT !.nodes[1] = [@ EXCEPT !.node_ns = m.ns, !.node_name = m.name,
                                               !.buffer_position = m.buffer_position,
                                               !.node_order = m.order]]]

\* parse.rs:167-186, the writer's dispatch on one message
apply_message(db, m, infer_types) ==
    CASE m.kind = "InsertNode" -> insert_node(db, m, infer_types)
      [] m.kind = "InsertAttr" -> insert_attr(db, m, infer_types)
      [] OTHER -> insert_root_element(db, m)

\* ------------------------------------------------------------------------
\* State.  The ingest pipeline (parse.rs:148-373) runs the producer on the
\* calling thread and the writer on the spawned thread; they share the
\* bounded channel.  After a load the store is read by the queries and
\* copied and rewritten by the redactor.
\* ------------------------------------------------------------------------

VARIABLES
    options,     \* ParseOptions of the store (parse.rs:126-131)
    ts,          \* the tokenizer: [state, depth]; "End" after the last token,
                 \* "Error" after it rejected the input
    doc,         \* the tokens the producer has taken, in order
    ps,          \* the producer's ParserState and node_id_count
    sent,        \* every message the producer has sent, in order
    chan,        \* the messages in the channel, oldest first
    tx_alive,    \* the Sender has not been dropped
    rx_alive,    \* the Receiver has not been dropped
    ppc,         \* producer: "loop", "join", "returned"
    wpc,         \* writer: "recv", "indexes", "commit", "done", "failed", "panicked"
    db,          \* the rows as the writer's connection sees them
    indexes,     \* add_indexes has run
    committed,   \* commit has run
    result,      \* what parse returned: "none" (not yet), "ok", "err", "panic"
    obs,         \* the last query: [op, arg, name, res]
    redaction,   \* the last redact call: [state, options, seed]
    out_db       \* the store redact wrote to

pipeline_vars == <<options, ts, doc, ps, sent, chan, tx_alive, rx_alive, ppc, wpc, db,
                   indexes, committed, result>>

reader_vars == <<obs, redaction, out_db>>

vars == <<pipeline_vars, reader_vars>>

AllOptions ==
    [ignore_whitespace : BOOLEAN, infer_types : BOOLEAN, case_insensitive : BOOLEAN]

NoObs == [op |-> "none", arg |-> 0, name |-> "", res |-> [kind |-> "ok", val |-> <<>>]]

NoRedaction ==
    [state |-> "none", options |-> [ignore |-> <<>>, mask |-> [uuids |-> FALSE]],
     seed |-> ""]

\* DocumentDb::_create (document.rs:129-150), then the start of parse
\* (parse.rs:149-157, 195-196)
Init ==
    /\ options \in AllOptions
    /\ ts \in {[state |-> st, depth |-> 0] : st \in StartStates}
    /\ doc = <<>>
    /\ ps = ParserState0
    /\ sent = <<>>
    /\ chan = <<>>
    /\ tx_alive = TRUE
    /\ rx_alive = TRUE
    /\ ppc = "loop"
    /\ wpc = "recv"
    /\ db = EmptyStore(options.infer_types)
    /\ indexes = FALSE
    /\ committed = FALSE
    /\ result = "none"
    /\ obs = NoObs
    /\ redaction = NoRedaction
    /\ out_db = EmptyStore(options.infer_types)

\* parse.rs:199-366: the tokenizer yields a token and the producer handles
\* it.  A send blocks while the channel is full and the receiver lives.
ProducerToken ==
    /\ ppc = "loop"
    /\ Len(doc) < MaxTokens
    /\ \E tok \in NextTokens(ts) :
         LET h == handle_token(ps, tok, Len(doc), options)
         IN  /\ h.msgs # <<>> => (rx_alive /\ Len(chan) < ChanCap)
             /\ chan' = chan \o h.msgs
             /\ sent' = sent \o h.msgs
             /\ ps' = h.ps
             /\ ts' = TokenizerStep(ts, tok)
             /\ doc' = Append(doc, tok)
    /\ UNCHANGED <<options, tx_alive, rx_alive, ppc, wpc, db, indexes, committed, result>>
    /\ UNCHANGED reader_vars

\* parse.rs:19,39,207,...: tx.send(..)? when the receiver is gone: the send
\* fails, parse returns Err(Channel) and the Sender is dropped.
ProducerSendFails ==
    /\ ppc = "loop"
    /\ Len(doc) < MaxTokens
    /\ ~rx_alive
    /\ \E tok \in NextTokens(ts) : handle_token(ps, tok, Len(doc), options).msgs # <<>>
    /\ ppc' = "returned"
    /\ result' = "err"
    /\ tx_alive' = FALSE
    /\ UNCHANGED <<options, sent, ts, doc, ps, chan, rx_alive, wpc, db, indexes, committed>>
    /\ UNCHANGED reader_vars

\* parse.rs:200: the tokenizer rejects the input; parse returns Err(Xml)
\* without joining the writer, and the Sender is dropped.
ProducerTokenError ==
    /\ ppc = "loop"
    /\ ppc' = "returned"
    /\ result' = "err"
    /\ tx_alive' = FALSE
    /\ ts' = [ts EXCEPT !.state = "Error"]
    /\ UNCHANGED <<options, sent, doc, ps, chan, rx_alive, wpc, db, indexes, committed>>
    /\ UNCHANGED reader_vars

\* the end of the input without drop(tx): the Sender lives on while parse
\* waits for the writer
ProducerEofNoDrop ==
    /\ ppc = "loop"
    /\ ppc' = "join"
    /\ ts' = [ts EXCEPT !.state = "End"]
    /\ UNCHANGED <<options, sent, doc, ps, chan, tx_alive, rx_alive, wpc, db, indexes,
                   committed, result>>
    /\ UNCHANGED reader_vars

\* parse.rs:366-368: the input is exhausted; drop(tx)
ProducerEof ==
    /\ ppc = "loop"
    /\ ppc' = "join"
    /\ tx_alive' = FALSE
    /\ ts' = [ts EXCEPT !.state = "End"]
    /\ UNCHANGED <<options, sent, doc, ps, chan, rx_alive, wpc, db, indexes, committed, result>>
    /\ UNCHANGED reader_vars

\* a join that drops the writer's error
join_result_ignore(w) ==
    IF w = "panicked" THEN "panic" ELSE "ok"

\* parse.rs:370-372: handle.join().unwrap()?
join_result(w) ==
    CASE w = "done" -> "ok"
      [] w = "failed" -> "err"
      [] OTHER -> "panic"

ProducerJoin ==
    /\ ppc = "join"
    /\ wpc \in {"done", "failed", "panicked"}
    /\ ppc' = "returned"
    /\ result' = join_result(wpc)
    /\ UNCHANGED <<options, sent, ts, doc, ps, chan, tx_alive, rx_alive, wpc, db,
                   indexes, committed>>
    /\ UNCHANGED reader_vars

\* What a dropped, uncommitted transaction leaves: the rollback restores
\* the rows of before the transaction, but the store runs with
\* journal_mode = OFF (document.rs:29-36), where the engine does not define
\* what ROLLBACK does; the rows may as well stay.
AfterRollback(before, now) == {before, now}

\* a writer that takes the newest message of the channel
WriterRecvNewest ==
    /\ wpc = "recv"
    /\ chan # <<>>
    /\ LET r == apply_message(db, chan[Len(chan)], options.infer_types)
       IN  IF r.ok
           THEN /\ db' = r.db
                /\ chan' = SubSeq(chan, 1, Len(chan) - 1)
                /\ UNCHANGED <<wpc, rx_alive>>
           ELSE /\ db' \in AfterRollback(EmptyStore(options.infer_types), db)
                /\ chan' = <<>>
                /\ wpc' = "failed"
                /\ rx_alive' = FALSE
    /\ UNCHANGED <<options, sent, ts, doc, ps, tx_alive, ppc, indexes, committed, result>>
    /\ UNCHANGED reader_vars

\* parse.rs:160-186: the writer receives the oldest message and applies it
WriterRecv ==
    /\ wpc = "recv"
    /\ chan # <<>>
    /\ LET r == apply_message(db, Head(chan), options.infer_types)
       IN  IF r.ok
           THEN /\ db' = r.db
                /\ chan' = Tail(chan)
                /\ UNCHANGED <<wpc, rx_alive>>
           ELSE /\ db' \in AfterRollback(EmptyStore(options.infer_types), db)
                /\ chan' = <<>>
                /\ wpc' = "failed"
                /\ rx_alive' = FALSE
    /\ UNCHANGED <<options, sent, ts, doc, ps, tx_alive, ppc, indexes, committed, result>>
    /\ UNCHANGED reader_vars

\* parse.rs:169-184: the engine fails the insert (I/O error, full disk):
\* the closure returns the error, the transaction and the Receiver are
\* dropped.
WriterSqlError ==
    /\ wpc = "recv"
    /\ chan # <<>>
    /\ db' \in AfterRollback(EmptyStore(options.infer_types), db)
    /\ chan' = <<>>
    /\ wpc' = "failed"
    /\ rx_alive' = FALSE
    /\ UNCHANGED <<options, sent, ts, doc, ps, tx_alive, ppc, indexes, committed, result>>
    /\ UNCHANGED reader_vars

\* a writer that leaves its loop on an empty channel (try_recv), whether
\* or not the Sender lives
WriterClosedOnEmpty ==
    /\ wpc = "recv"
    /\ chan = <<>>
    /\ wpc' = "indexes"
    /\ UNCHANGED <<options, sent, ts, doc, ps, chan, tx_alive, rx_alive, ppc, db,
                   indexes, committed, result>>
    /\ UNCHANGED reader_vars

\* parse.rs:160-165: recv fails on the empty, disconnected channel
WriterClosed ==
    /\ wpc = "recv"
    /\ chan = <<>>
    /\ ~tx_alive
    /\ wpc' = "indexes"
    /\ UNCHANGED <<options, sent, ts, doc, ps, chan, tx_alive, rx_alive, ppc, db,
                   indexes, committed, result>>
    /\ UNCHANGED reader_vars

\* parse.rs:189, builder.rs:118-122
WriterAddIndexes ==
    /\ wpc = "indexes"
    /\ indexes' = TRUE
    /\ wpc' = "commit"
    /\ UNCHANGED <<options, sent, ts, doc, ps, chan, tx_alive, rx_alive, ppc, db,
                   committed, result>>
    /\ UNCHANGED reader_vars

\* parse.rs:190-192, builder.rs:113-116
WriterCommit ==
    /\ wpc = "commit"
    /\ committed' = TRUE
    /\ wpc' = "done"
    /\ rx_alive' = FALSE
    /\ UNCHANGED <<options, sent, ts, doc, ps, chan, tx_alive, ppc, db, indexes, result>>
    /\ UNCHANGED reader_vars

\* parse.rs:189-190: add_indexes().unwrap() or commit().unwrap() on an
\* engine error: the writer thread panics, its transaction is dropped.
WriterPanic ==
    /\ wpc \in {"indexes", "commit"}
    /\ wpc' = "panicked"
    /\ rx_alive' = FALSE
    /\ indexes' = FALSE
    /\ db' \in AfterRollback(EmptyStore(options.infer_types), db)
    /\ UNCHANGED <<options, sent, ts, doc, ps, chan, tx_alive, ppc, committed, result>>
    /\ UNCHANGED reader_vars

Next ==
    \/ ProducerToken
    \/ ProducerSendFails
    \/ ProducerTokenError
    \/ ProducerEof
    \/ ProducerJoin
    \/ WriterRecv
    \/ WriterSqlError
    \/ WriterClosed
    \/ WriterAddIndexes
    \/ WriterCommit
    \/ WriterPanic

Spec == Init /\ [][Next]_vars

\* ------------------------------------------------------------------------
\* Properties of the ingest pipeline
\* ------------------------------------------------------------------------

\* the positions in doc of the root element's start tag
RootStarts ==
    {i \in 1..Len(doc) : /\ doc[i].kind = "ElementStart"
                         /\ \A j \in 1..(i - 1) : doc[j].kind # "ElementStart"}

\* C1: after a successful ingest row 1 is an Element under the sentinel and
\* carries the namespace and name of the document's root element; the
\* producer sends at most one InsertRootElement and no InsertNode with id 0
\* or 1.
C1_RootRow ==
    /\ \A i \in 1..Len(sent) : sent[i].kind = "InsertNode" => sent[i].node_id >= 2
    /\ Cardinality({i \in 1..Len(sent) : sent[i].kind = "InsertRootElement"}) <= 1
    /\ result = "ok" =>
          /\ 1 \in DOMAIN db.nodes
          /\ db.nodes[1].node_type = Element
          /\ db.nodes[1].parent_node_id = 0
          /\ \A i \in RootStarts :
                /\ db.nodes[1].node_name = Some(mutate_text(doc[i].local, options))
                /\ db.nodes[1].node_ns =
                      IF doc[i].prefix = "" THEN None
                      ELSE Some(mutate_text(doc[i].prefix, options))
                /\ db.nodes[1].buffer_position = i - 1

\* a successful ingest of a document whose root element has a prefix and
\* a child element
C1_Witness ==
    /\ result = "ok"
    /\ RootStarts # {}
    /\ db.nodes[1].node_ns # None
    /\ \E n \in DOMAIN db.nodes : n >= 2 /\ db.nodes[n].node_type = Element

\* C2: after ingest no two rows with node_id >= 1 share (parent_node_id,
\* node_order), and under one parent node_order increases in source order.
C2_SiblingOrder ==
    result = "ok" =>
        \A m, n \in DOMAIN db.nodes \ {0} :
            (m # n /\ db.nodes[m].parent_node_id = db.nodes[n].parent_node_id) =>
                /\ db.nodes[m].node_order # db.nodes[n].node_order
                /\ db.nodes[m].buffer_position < db.nodes[n].buffer_position
                      => db.nodes[m].node_order < db.nodes[n].node_order

\* C3: the parent of every row but the sentinel exists, and it existed
\* before the writer applied the row.
C3_Inv ==
    \A n \in DOMAIN db.nodes \ {0} : db.nodes[n].parent_node_id \in DOMAIN db.nodes

C3_Step ==
    /\ \A n \in DOMAIN db'.nodes \ DOMAIN db.nodes :
          db'.nodes[n].parent_node_id \in DOMAIN db.nodes
    /\ \A n \in DOMAIN db'.nodes \cap DOMAIN db.nodes :
          db'.nodes[n].parent_node_id = db.nodes[n].parent_node_id

C3_ParentExists == [](C3_Inv) /\ [][C3_Step]_vars

\* the writer has applied a child of an element whose id the producer
\* allocated, while the load is still running
C3_Witness ==
    /\ wpc = "recv"
    /\ \E n \in DOMAIN db.nodes : db.nodes[n].parent_node_id >= 2

\* the position in doc (from 0) of the start tag that holds the token at
\* position p
StartTagOf(p) ==
    CHOOSE j \in 0..p :
        /\ doc[j + 1].kind = "ElementStart"
        /\ \A k \in (j + 1)..p : doc[k + 1].kind # "ElementStart"

\* C4: the parent of every attribute row is the element whose start tag
\* holds the attribute: a row of type Element, never node 0.
C4_AttrParent ==
    \A k \in 1..Len(db.attrs) :
        LET a == db.attrs[k]
        IN  /\ a.parent_node_id # 0
            /\ a.parent_node_id \in DOMAIN db.nodes
            /\ db.nodes[a.parent_node_id].node_type = Element
            /\ db.nodes[a.parent_node_id].buffer_position
                  = StartTagOf(a.buffer_position)

\* attributes of the root element and of a nested element are stored
C4_Witness ==
    /\ \E k \in 1..Len(db.attrs) : db.attrs[k].parent_node_id = 1
    /\ \E k \in 1..Len(db.attrs) : db.attrs[k].parent_node_id >= 2

\* C6: when the tokenizer rejects the input the writer's transaction is
\* aborted: no rows are committed and no indexes are created.
C6_AbortOnMalformed ==
    ts.state = "Error" => (~committed /\ ~indexes)

\* C7: when an insert fails in the writer, parse never returns Ok, it
\* returns an error once it has returned, and the transaction is not
\* committed.
C7_WriterErrorFails ==
    wpc = "failed" =>
        /\ result \in {"none", "err"}
        /\ ppc = "returned" => result = "err"
        /\ ~committed
        /\ ~indexes

\* the writer failed after the producer had sent every message, and parse
\* has returned through the join
C7_Witness ==
    /\ wpc = "failed"
    /\ ts.state = "End"
    /\ ppc = "returned"
    /\ result = "err"

\* the writer failed while the producer was still sending; the next send
\* failed
C7_WitnessSending ==
    /\ wpc = "failed"
    /\ ts.state \notin {"End", "Error"}
    /\ ppc = "returned"
    /\ result = "err"

\* ------------------------------------------------------------------------
\* The read surface of the store (document.rs:197-580).  A result is
\* [kind |-> "ok" | "err" | "panic", val |-> the value of Ok].
\* ------------------------------------------------------------------------

QOk(v) == [kind |-> "ok", val |-> v]

QErr == [kind |-> "err", val |-> <<>>]

\* rusqlite::Error::QueryReturnedNoRows, what query_row returns for a
\* statement without a row
QNoRows == [kind |-> "err", val |-> <<"QueryReturnedNoRows">>]

QPanic == [kind |-> "panic", val |-> <<>>]

\* Option::unwrap_or_default on Option<String>
unwrap_or_default(o) == IF o = None THEN "" ELSE o[1]

\* ORDER BY node_order: the ids of S by node_order; rows of equal
\* node_order come in the order of the table, by node_id
RECURSIVE OrderByNodeOrder(_, _)
OrderByNodeOrder(nodes, S) ==
    IF S = {} THEN <<>>
    ELSE LET m == CHOOSE x \in S : \A y \in S :
                      \/ nodes[x].node_order < nodes[y].node_order
                      \/ nodes[x].node_order = nodes[y].node_order /\ x <= y
         IN  <<m>> \o OrderByNodeOrder(nodes, S \ {m})

\* the rows of a query without ORDER BY, in the order of the table
RECURSIVE TableOrder(_)
TableOrder(S) ==
    IF S = {} THEN <<>>
    ELSE LET m == CHOOSE x \in S : \A y \in S : x <= y
         IN  <<m>> \o TableOrder(S \ {m})

\* model.rs:3-8, as read at document.rs:333-337 and 525-529
element_record(nodes, n) ==
    [node_id |-> n, ns |-> nodes[n].node_ns, name |-> nodes[n].node_name[1]]

\* the rows of ids as model::Element: r.get::<_, String>(2) fails on a
\* NULL node_name
elements_of(nodes, ids) ==
    IF \E i \in 1..Len(ids) : nodes[ids[i]].node_name = None THEN QErr
    ELSE QOk([i \in 1..Len(ids) |-> element_record(nodes, ids[i])])

\* model.rs:45-88, From<RawNode> for Node, for the types but Document
node_record(nodes, n) ==
    [node_type |-> nodes[n].node_type, node_id |-> n,
     ns |-> IF nodes[n].node_type = Element THEN nodes[n].node_ns ELSE None,
     name |-> IF nodes[n].node_type = Element
              THEN unwrap_or_default(nodes[n].node_name) ELSE "",
     value |-> IF nodes[n].node_type = Element THEN ""
               ELSE unwrap_or_default(nodes[n].node_value)]

\* child_nodes without "AND node_id != 0" and with a conversion that has an
\* arm for NodeType::Document
child_nodes_unfiltered(d, p) ==
    LET ids == OrderByNodeOrder(d.nodes,
                    {n \in DOMAIN d.nodes : d.nodes[n].parent_node_id = p})
    IN  QOk([i \in 1..Len(ids) |-> node_record(d.nodes, ids[i])])

\* document.rs:298-320; the conversion panics on NodeType::Document
\* (model.rs:85)
child_nodes(d, p) ==
    LET ids == OrderByNodeOrder(d.nodes,
                    {n \in DOMAIN d.nodes : d.nodes[n].parent_node_id = p /\ n # 0})
    IN  IF \E i \in 1..Len(ids) : d.nodes[ids[i]].node_type = Document THEN QPanic
        ELSE QOk([i \in 1..Len(ids) |-> node_record(d.nodes, ids[i])])

\* document.rs:322-340
children(d, p) ==
    elements_of(d.nodes, OrderByNodeOrder(d.nodes,
        {n \in DOMAIN d.nodes : /\ d.nodes[n].parent_node_id = p
                                /\ d.nodes[n].node_type = Element}))

\* document.rs:342-374
children_by_name(d, p, element_name, opts) ==
    LET wanted == IF opts.case_insensitive THEN ToLower(element_name)
                  ELSE element_name
    IN  elements_of(d.nodes, OrderByNodeOrder(d.nodes,
            {n \in DOMAIN d.nodes : /\ d.nodes[n].parent_node_id = p
                                    /\ d.nodes[n].node_type = Element
                                    /\ d.nodes[n].node_name = Some(wanted)}))

\* document.rs:486-491 and 513-518: the recursive common table expression
\* descendents(parent_id); UNION drops the ids already found
RECURSIVE descendents_cte(_, _)
descendents_cte(nodes, found) ==
    LET more == found \cup {n \in DOMAIN nodes : nodes[n].parent_node_id \in found}
    IN  IF more = found THEN found ELSE descendents_cte(nodes, more)

\* the recursive select under UNION ALL: the ids found before are kept
cte_new_rows_all(nodes, frontier, seen) ==
    {n \in DOMAIN nodes : nodes[n].parent_node_id \in frontier}

\* document.rs:487-491 and 514-518: one round of the recursive select over
\* the rows of the last round; UNION drops the ids already in the table
cte_new_rows(nodes, frontier, seen) ==
    {n \in DOMAIN nodes : nodes[n].parent_node_id \in frontier} \ seen

\* the engine's evaluation of the common table expression: rounds of the
\* recursive select until one yields no new row.  A round that yields a
\* new row adds an id of the table, so a walk that ends does so within
\* as many rounds as the table has rows, and one more; a walk still
\* running after that never ends.
RECURSIVE cte_walk(_, _, _, _)
cte_walk(nodes, frontier, seen, rounds) ==
    IF frontier = {} THEN [terminated |-> TRUE, visited |-> seen, rounds |-> rounds]
    ELSE IF rounds > Cardinality(DOMAIN nodes) + 1
         THEN [terminated |-> FALSE, visited |-> seen, rounds |-> rounds]
    ELSE cte_walk(nodes, cte_new_rows(nodes, frontier, seen),
                  seen \cup cte_new_rows(nodes, frontier, seen), rounds + 1)

\* descendents without the recursive step: the elements under p itself
descendents_one_level(d, p) ==
    elements_of(d.nodes, TableOrder(
        {n \in DOMAIN d.nodes : /\ d.nodes[n].node_type = Element
                                /\ d.nodes[n].parent_node_id = p}))

\* document.rs:510-532
descendents(d, p) ==
    elements_of(d.nodes, TableOrder(
        {n \in DOMAIN d.nodes : /\ d.nodes[n].node_type = Element
                                /\ d.nodes[n].parent_node_id
                                      \in descendents_cte(d.nodes, {p})}))

\* document.rs:483-508: the statement selects node_id, node_ns, node_name
\* and the row is read as (usize, u8, Option<String>, column 3, column 4):
\* reading node_ns as u8 fails on the first row
descendent_nodes(d, p) ==
    LET rows == {n \in DOMAIN d.nodes :
                    d.nodes[n].parent_node_id \in descendents_cte(d.nodes, {p})}
    IN  IF rows = {} THEN QOk(<<>>) ELSE QErr

\* document.rs:534-536
all_elements(d) == descendents(d, 0)

\* document.rs:538-540
all_nodes(d) == descendent_nodes(d, 0)

\* document.rs:197-206
parent_element_id(d, node_id) ==
    IF node_id \notin DOMAIN d.nodes THEN QNoRows
    ELSE QOk(d.nodes[node_id].parent_node_id)

\* the rows under the parent of node_id whose node_order is below that of
\* node_id (document.rs:211-215)
rows_before(d, node_id) ==
    {m \in DOMAIN d.nodes :
        /\ d.nodes[m].parent_node_id = d.nodes[node_id].parent_node_id
        /\ d.nodes[m].node_order < d.nodes[node_id].node_order}

\* the rows under the parent of node_id whose node_order is above that of
\* node_id (document.rs:226-230)
rows_after(d, node_id) ==
    {m \in DOMAIN d.nodes :
        /\ d.nodes[m].parent_node_id = d.nodes[node_id].parent_node_id
        /\ d.nodes[m].node_order > d.nodes[node_id].node_order}

\* document.rs:208-221: the statement selects parent_node_id of the row
\* with the greatest node_order below; query_row fails without a row
prev_sibling_element_id(d, node_id) ==
    IF node_id \notin DOMAIN d.nodes \/ rows_before(d, node_id) = {} THEN QNoRows
    ELSE LET m == CHOOSE x \in rows_before(d, node_id) :
                      \A y \in rows_before(d, node_id) :
                          d.nodes[y].node_order <= d.nodes[x].node_order
         IN  QOk(d.nodes[m].parent_node_id)

\* document.rs:223-236: the statement selects parent_node_id of the row
\* with the smallest node_order above
next_sibling_element_id(d, node_id) ==
    IF node_id \notin DOMAIN d.nodes \/ rows_after(d, node_id) = {} THEN QNoRows
    ELSE LET m == CHOOSE x \in rows_after(d, node_id) :
                      \A y \in rows_after(d, node_id) :
                          d.nodes[x].node_order <= d.nodes[y].node_order
         IN  QOk(d.nodes[m].parent_node_id)

\* document.rs:238-252: fails without a row of type Element and on a NULL
\* node_name
element(d, node_id) ==
    IF node_id \notin DOMAIN d.nodes THEN QNoRows
    ELSE IF d.nodes[node_id].node_type # Element THEN QNoRows
    ELSE IF d.nodes[node_id].node_name = None THEN QErr
    ELSE QOk(element_record(d.nodes, node_id))

\* document.rs:254-272, DocumentDb::node; the conversion panics on NodeType::Document
\* (model.rs:85)
node_by_id(d, node_id) ==
    IF node_id \notin DOMAIN d.nodes THEN QNoRows
    ELSE IF d.nodes[node_id].node_type = Document THEN QPanic
    ELSE QOk(node_record(d.nodes, node_id))

\* buffer_position answering 0 where there is no row
buffer_position_or_zero(d, node_id) ==
    IF node_id \notin DOMAIN d.nodes THEN QOk(0)
    ELSE QOk(d.nodes[node_id].buffer_position)

\* document.rs:274-284
buffer_position(d, node_id) ==
    IF node_id \notin DOMAIN d.nodes THEN QNoRows
    ELSE QOk(d.nodes[node_id].buffer_position)

\* document.rs:376-391
attr(d, attr_id) ==
    IF attr_id \notin 1..Len(d.attrs) THEN QNoRows
    ELSE QOk([attr_id |-> attr_id, ns |-> d.attrs[attr_id].attr_ns,
              name |-> d.attrs[attr_id].attr_name,
              value |-> d.attrs[attr_id].attr_value])

\* document.rs:463-473: COUNT(*) of the rows with parent_node_id = node_id
has_children(d, node_id) ==
    QOk(\E n \in DOMAIN d.nodes : d.nodes[n].parent_node_id = node_id)

\* select.rs:265-267, ElementRef::is_empty
is_empty(d, el) ==
    LET r == has_children(d, el.node_id)
    IN  IF r.kind # "ok" THEN QPanic ELSE QOk(r.val)

\* ------------------------------------------------------------------------
\* Selector matching (select.rs).  The matcher of the selectors crate is
\* modelled by the calls it makes on the adapter: it tests the rightmost
\* compound selector on the element and, where that matches, asks the
\* adapter for the element the combinator leads to.  A complex selector is
\* the sequence of its compounds from right to left, each with the
\* combinator to the compound on its left; a selector is a list of them.
\* ------------------------------------------------------------------------

Compound(name, comb) == [name |-> name, comb |-> comb]

\* select.rs:109-117, ElementRef::parent_element
parent_element(d, el) ==
    LET r == parent_element_id(d, el.node_id)
    IN  IF r.kind # "ok" THEN QOk(None)
        ELSE IF element(d, r.val).kind # "ok" THEN QPanic
        ELSE QOk(Some(element(d, r.val).val))

\* select.rs:131-139: Some of element(id).unwrap() for the id that
\* prev_sibling_element_id returns, None where it returns Err
prev_sibling_element(d, el) ==
    LET r == prev_sibling_element_id(d, el.node_id)
    IN  IF r.kind # "ok" THEN QOk(None)
        ELSE IF element(d, r.val).kind # "ok" THEN QPanic
        ELSE QOk(Some(element(d, r.val).val))

\* select.rs:141-149
next_sibling_element(d, el) ==
    LET r == next_sibling_element_id(d, el.node_id)
    IN  IF r.kind # "ok" THEN QOk(None)
        ELSE IF element(d, r.val).kind # "ok" THEN QPanic
        ELSE QOk(Some(element(d, r.val).val))

\* select.rs:155-157, ElementRef::has_local_name
has_local_name(el, local_name) == el.name = local_name

\* the test of one compound selector: a type selector or the universal one
compound_matches(c, el) == c.name = "*" \/ has_local_name(el, c.name)

\* a combinator under which every ancestor is tried
combinator_stops_never(comb) == FALSE

\* the child combinator tries the parent only, the descendant combinator
\* every ancestor
combinator_stops(comb) == comb = "child"

RECURSIVE matches_complex(_, _, _, _)
RECURSIVE matches_ancestors(_, _, _, _)

\* the compounds of sel from position i on match el and the elements the
\* combinators lead to: "matched", "not_matched" or "panic"
matches_complex(d, sel, i, el) ==
    IF ~compound_matches(sel[i], el) THEN "not_matched"
    ELSE IF sel[i].comb = "none" THEN "matched"
    ELSE matches_ancestors(d, sel, i, el)

\* the walk from el up for the combinator of compound i
matches_ancestors(d, sel, i, el) ==
    LET pe == parent_element(d, el)
    IN  IF pe.kind = "panic" THEN "panic"
        ELSE IF pe.val = None THEN "not_matched"
        ELSE LET r == matches_complex(d, sel, i + 1, pe.val[1])
             IN  IF r # "not_matched" \/ combinator_stops(sel[i].comb) THEN r
                 ELSE matches_ancestors(d, sel, i, pe.val[1])

\* select.rs:329-331 and 380-383: self.0.iter().any(matches_selector),
\* from position j of the list on
RECURSIVE selector_matches(_, _, _, _)
selector_matches(d, list, j, el) ==
    IF j > Len(list) THEN "not_matched"
    ELSE LET r == matches_complex(d, list[j], 1, el)
         IN  IF r # "not_matched" THEN r
             ELSE selector_matches(d, list, j + 1, el)

\* select.rs:374-395: the filter over the candidates from position i on
RECURSIVE filter_matching(_, _, _, _)
filter_matching(d, list, els, i) ==
    IF i > Len(els) THEN QOk(<<>>)
    ELSE LET r == selector_matches(d, list, 1, els[i])
             rest == filter_matching(d, list, els, i + 1)
         IN  IF r = "panic" \/ rest.kind = "panic" THEN QPanic
             ELSE IF r = "matched" THEN QOk(<<els[i]>> \o rest.val)
             ELSE rest

\* match_all_from taking the candidates from children
match_all_from_children(d, list, node_id) ==
    IF children(d, node_id).kind # "ok" THEN QErr
    ELSE filter_matching(d, list, children(d, node_id).val, 1)

\* select.rs:356-397
match_all_from(d, list, node_id) ==
    IF descendents(d, node_id).kind # "ok" THEN QErr
    ELSE filter_matching(d, list, descendents(d, node_id).val, 1)

\* select.rs:323-346: the loop over the candidates from position i on
RECURSIVE first_matching(_, _, _, _)
first_matching(d, list, els, i) ==
    IF i > Len(els) THEN QOk(None)
    ELSE LET r == selector_matches(d, list, 1, els[i])
         IN  IF r = "panic" THEN QPanic
             ELSE IF r = "matched" THEN QOk(Some(els[i]))
             ELSE first_matching(d, list, els, i + 1)

\* match_one_from scanning the candidates from the last one
match_one_from_reversed(d, list, node_id) ==
    IF descendents(d, node_id).kind # "ok" THEN QErr
    ELSE LET els == descendents(d, node_id).val
         IN  first_matching(d, list, [i \in 1..Len(els) |-> els[Len(els) + 1 - i]], 1)

\* select.rs:309-349
match_one_from(d, list, node_id) ==
    IF descendents(d, node_id).kind # "ok" THEN QErr
    ELSE first_matching(d, list, descendents(d, node_id).val, 1)

\* the selectors of the model, as Selector::new (select.rs:296-302)
\* parses them
Selectors ==
    {[text |-> "*", list |-> << <<Compound("*", "none")>> >>],
     [text |-> "a", list |-> << <<Compound("a", "none")>> >>],
     [text |-> "r > a", list |-> << <<Compound("a", "child"), Compound("r", "none")>> >>],
     [text |-> "b > a", list |-> << <<Compound("a", "child"), Compound("b", "none")>> >>],
     [text |-> "r a", list |-> << <<Compound("a", "descendant"), Compound("r", "none")>> >>],
     [text |-> "b > a, r > b",
      list |-> << <<Compound("a", "child"), Compound("b", "none")>>,
                  <<Compound("b", "child"), Compound("r", "none")>> >>]}

\* ------------------------------------------------------------------------
\* parse on a whole input without faults: the producer's messages, applied
\* in order by the writer, then indexed and committed.
\* ------------------------------------------------------------------------

\* parse.rs:199-366: the parser state after the tokens from position i on
RECURSIVE produce_state(_, _, _, _)
produce_state(toks, i, p, opts) ==
    IF i > Len(toks) THEN p
    ELSE produce_state(toks, i + 1, handle_token(p, toks[i], i - 1, opts).ps, opts)

\* parse.rs:199-366: the messages sent for the tokens from position i on
RECURSIVE produce(_, _, _, _)
produce(toks, i, p, opts) ==
    IF i > Len(toks) THEN <<>>
    ELSE LET h == handle_token(p, toks[i], i - 1, opts)
         IN  h.msgs \o produce(toks, i + 1, h.ps, opts)

\* parse.rs:159-187: the writer's loop over the messages from position i on
RECURSIVE apply_all(_, _, _, _)
apply_all(d, msgs, i, infer_types) ==
    IF i > Len(msgs) THEN d
    ELSE apply_all(apply_message(d, msgs[i], infer_types).db, msgs, i + 1, infer_types)

\* parse.rs:148-373
parse_store(toks, opts) ==
    apply_all(EmptyStore(opts.infer_types), produce(toks, 1, ParserState0, opts), 1,
              opts.infer_types)

\* the tokenizer yields toks from position i on, from state t
RECURSIVE Tokenizes(_, _, _)
Tokenizes(toks, i, t) ==
    IF i > Len(toks) THEN TRUE
    ELSE IF ~TokenAllowed(t, toks[i]) THEN FALSE
    ELSE Tokenizes(toks, i + 1, TokenizerStep(t, toks[i]))

\* toks is the token stream of some input
IsTokenStream(toks) ==
    \E st \in StartStates : Tokenizes(toks, 1, [state |-> st, depth |-> 0])

\* document.rs:444-461: the attribute rows of node_id as model::Attr, in
\* the order of the table
attrs(d, node_id) ==
    LET ids == SelectSeq([k \in 1..Len(d.attrs) |-> k],
                         LAMBDA k : d.attrs[k].parent_node_id = node_id)
    IN  QOk([i \in 1..Len(ids) |->
                [attr_id |-> ids[i], ns |-> d.attrs[ids[i]].attr_ns,
                 name |-> d.attrs[ids[i]].attr_name,
                 value |-> d.attrs[ids[i]].attr_value]])

\* attr_by_name without the test of attr_ns
attr_by_name_any_ns(d, node_id, attr_name, attr_ns, opts) ==
    LET wanted == IF opts.case_insensitive THEN ToLower(attr_name) ELSE attr_name
        rows == {k \in 1..Len(d.attrs) : /\ d.attrs[k].parent_node_id = node_id
                                         /\ d.attrs[k].attr_name = wanted}
    IN  IF rows = {} THEN {QOk(None)}
        ELSE {QOk(Some([attr_id |-> k, ns |-> attr_ns, name |-> wanted,
                        value |-> d.attrs[k].attr_value])) : k \in rows}

\* document.rs:393-442: the results the call can have.  query_row takes
\* the first row of a statement without ORDER BY, which is any of the
\* rows that qualify.
attr_by_name(d, node_id, attr_name, attr_ns, opts) ==
    LET wanted == IF opts.case_insensitive THEN ToLower(attr_name) ELSE attr_name
        rows == {k \in 1..Len(d.attrs) : /\ d.attrs[k].parent_node_id = node_id
                                         /\ d.attrs[k].attr_name = wanted
                                         /\ d.attrs[k].attr_ns = attr_ns}
    IN  IF rows = {} THEN {QOk(None)}
        ELSE {QOk(Some([attr_id |-> k, ns |-> attr_ns, name |-> wanted,
                        value |-> d.attrs[k].attr_value])) : k \in rows}

\* document.rs:542-550: the statement fails to prepare on a store without
\* the column (every row of a store has it or none has) and query_row
\* fails on an id without a row
inferred_type(d, node_id) ==
    IF d.nodes[0].inferred_type = None THEN QErr
    ELSE IF node_id \notin DOMAIN d.nodes THEN QNoRows
    ELSE QOk(d.nodes[node_id].inferred_type[1])

\* document.rs:572-580; the two tables have the column or neither has
\* (document.rs:72-106)
attr_inferred_type(d, attr_id) ==
    IF d.nodes[0].inferred_type = None THEN QErr
    ELSE IF attr_id \notin 1..Len(d.attrs) THEN QNoRows
    ELSE QOk(d.attrs[attr_id].inferred_type[1])

\* ------------------------------------------------------------------------
\* The loaded store and its readers.  The documents are token streams of
\* the tokenizer; a load without faults is one step.
\* ------------------------------------------------------------------------

\* attribute values, character data and comments of the documents: one or
\* more strings of every inferred type
RichVals ==
    {"", " ", "Hi", " Hi ", "true", "42", " 42 ", "1.5", UuidA, UuidB,
     "2020-02-02T10:30:00Z", "10:30:00", "2020-02-02", "P1D", "{}"}

\* <r><a x="v" y="Hi">Hi</a></r>
DocAttr(v) ==
    <<Tok("ElementStart", "", "r", ""), Tok("ElementEnd", "", "", "Open"),
      Tok("ElementStart", "", "a", ""), Tok("Attribute", "", "x", v),
      Tok("Attribute", "", "y", "Hi"), Tok("ElementEnd", "", "", "Open"),
      Tok("Text", "", "", "Hi"), Tok("ElementEnd", "", "", "Close"),
      Tok("ElementEnd", "", "", "Close")>>

\* <r><a x="42">v<!--Hi--></a><b>v</b></r>
DocText(v) ==
    <<Tok("ElementStart", "", "r", ""), Tok("ElementEnd", "", "", "Open"),
      Tok("ElementStart", "", "a", ""), Tok("Attribute", "", "x", "42"),
      Tok("ElementEnd", "", "", "Open"),
      Tok("Text", "", "", v), Tok("Comment", "", "", "Hi"),
      Tok("ElementEnd", "", "", "Close"),
      Tok("ElementStart", "", "b", ""), Tok("ElementEnd", "", "", "Open"),
      Tok("Text", "", "", v), Tok("ElementEnd", "", "", "Close"),
      Tok("ElementEnd", "", "", "Close")>>

\* <r><a><![CDATA[v]]><!--v--></a></r>
DocCdata(v) ==
    <<Tok("ElementStart", "", "r", ""), Tok("ElementEnd", "", "", "Open"),
      Tok("ElementStart", "", "a", ""), Tok("ElementEnd", "", "", "Open"),
      Tok("Cdata", "", "", v), Tok("Comment", "", "", v),
      Tok("ElementEnd", "", "", "Close"), Tok("ElementEnd", "", "", "Close")>>

\* <r id="UuidA"><a x="UuidA" y="UuidB">UuidA</a><b>UuidB</b></r>
DocUuids ==
    <<Tok("ElementStart", "", "r", ""), Tok("Attribute", "", "id", UuidA),
      Tok("ElementEnd", "", "", "Open"),
      Tok("ElementStart", "", "a", ""), Tok("Attribute", "", "x", UuidA),
      Tok("Attribute", "", "y", UuidB), Tok("ElementEnd", "", "", "Open"),
      Tok("Text", "", "", UuidA), Tok("ElementEnd", "", "", "Close"),
      Tok("ElementStart", "", "b", ""), Tok("ElementEnd", "", "", "Open"),
      Tok("Text", "", "", UuidB), Tok("ElementEnd", "", "", "Close"),
      Tok("ElementEnd", "", "", "Close")>>

\* <r><b>42</b><b>hi</b></r>
DocTwoTexts ==
    <<Tok("ElementStart", "", "r", ""), Tok("ElementEnd", "", "", "Open"),
      Tok("ElementStart", "", "b", ""), Tok("ElementEnd", "", "", "Open"),
      Tok("Text", "", "", "42"), Tok("ElementEnd", "", "", "Close"),
      Tok("ElementStart", "", "b", ""), Tok("ElementEnd", "", "", "Open"),
      Tok("Text", "", "", "hi"), Tok("ElementEnd", "", "", "Close"),
      Tok("ElementEnd", "", "", "Close")>>

\* <?xml version="1.0"?><!-- --><P:A P:X="Hi"><a> Hi <r/></a><![CDATA[]]><?pi?></P:A><!-- -->
DocMixed ==
    <<Tok("Declaration", "", "", ""), Tok("Comment", "", "", " "),
      Tok("ElementStart", "P", "A", ""), Tok("Attribute", "P", "X", "Hi"),
      Tok("ElementEnd", "", "", "Open"),
      Tok("ElementStart", "", "a", ""), Tok("ElementEnd", "", "", "Open"),
      Tok("Text", "", "", " Hi "),
      Tok("ElementStart", "", "r", ""), Tok("ElementEnd", "", "", "Empty"),
      Tok("ElementEnd", "", "", "Close"),
      Tok("Cdata", "", "", ""), Tok("ProcessingInstruction", "", "", ""),
      Tok("ElementEnd", "", "", "Close"), Tok("Comment", "", "", " ")>>

\* <!DOCTYPE r><r/>, <a/>, and the inputs without a root element <!-- -->
\* and <?xml version="1.0"?>, and the input cut off in <r><a>
DocsSmall ==
    {<<Tok("EmptyDtd", "", "", ""), Tok("ElementStart", "", "r", ""),
       Tok("ElementEnd", "", "", "Empty")>>,
     <<Tok("ElementStart", "", "a", ""), Tok("ElementEnd", "", "", "Empty")>>,
     <<Tok("Comment", "", "", " ")>>,
     <<Tok("Declaration", "", "", "")>>,
     <<Tok("ElementStart", "", "r", ""), Tok("ElementEnd", "", "", "Open"),
       Tok("ElementStart", "", "a", ""), Tok("ElementEnd", "", "", "Open")>>}

\* <r><a><a/></a><b><a/></b><a/><c><r><a/></r></c></r>
DocNested ==
    <<Tok("ElementStart", "", "r", ""), Tok("ElementEnd", "", "", "Open"),
      Tok("ElementStart", "", "a", ""), Tok("ElementEnd", "", "", "Open"),
      Tok("ElementStart", "", "a", ""), Tok("ElementEnd", "", "", "Empty"),
      Tok("ElementEnd", "", "", "Close"),
      Tok("ElementStart", "", "b", ""), Tok("ElementEnd", "", "", "Open"),
      Tok("ElementStart", "", "a", ""), Tok("ElementEnd", "", "", "Empty"),
      Tok("ElementEnd", "", "", "Close"),
      Tok("ElementStart", "", "a", ""), Tok("ElementEnd", "", "", "Empty"),
      Tok("ElementStart", "", "c", ""), Tok("ElementEnd", "", "", "Open"),
      Tok("ElementStart", "", "r", ""), Tok("ElementEnd", "", "", "Open"),
      Tok("ElementStart", "", "a", ""), Tok("ElementEnd", "", "", "Empty"),
      Tok("ElementEnd", "", "", "Close"), Tok("ElementEnd", "", "", "Close"),
      Tok("ElementEnd", "", "", "Close")>>

\* <r x="yes" x="no" P:X="Hi" X="42"><a x="yes"/></r>
DocDupAttr ==
    <<Tok("ElementStart", "", "r", ""), Tok("Attribute", "", "x", "yes"),
      Tok("Attribute", "", "x", "no"), Tok("Attribute", "P", "X", "Hi"),
      Tok("Attribute", "", "X", "42"), Tok("ElementEnd", "", "", "Open"),
      Tok("ElementStart", "", "a", ""), Tok("Attribute", "", "x", "yes"),
      Tok("ElementEnd", "", "", "Empty"), Tok("ElementEnd", "", "", "Close")>>

Docs ==
    {DocAttr(v) : v \in RichVals}
        \cup {DocText(v) : v \in RichVals \ {""}}
        \cup {DocCdata(v) : v \in RichVals}
        \cup {DocUuids, DocTwoTexts, DocMixed, DocNested, DocDupAttr}
        \cup DocsSmall

\* ------------------------------------------------------------------------
\* The redactor (redact.rs).  It reads the store d and writes the copy;
\* w is [db |-> the copy so far, panicked |-> an unwrap has failed].
\* ------------------------------------------------------------------------

MaxRules == 2

\* Uuid::new_v4() at redact.rs:142
Seeds == {"s1", "s2"}

\* Uuid::new_v5(&seed, bytes).to_string(): a different string for every
\* seed and every name
UuidV5(seed, bytes) == "v5(" \o seed \o "," \o bytes \o ")"

\* redact.rs:8-12
IgnoreRules ==
    {[tag |-> "a", value |-> v, attrs |-> s] : v \in BOOLEAN, s \in {{}, {"x"}}}
        \cup {[tag |-> "b", value |-> TRUE, attrs |-> {}]}

\* redact.rs:18-22
RedactOptions ==
    [ignore : UNION {[1..n -> IgnoreRules] : n \in 0..MaxRules},
     mask : [uuids : BOOLEAN]]

Redacting(out) == [db |-> out, panicked |-> FALSE]

Panicked(w) == [w EXCEPT !.panicked = TRUE]

\* redact.rs:32-50 and 87-105: the literal by type, None where the
\* function returns without a write
scrub_value(ty) ==
    CASE ty = "string" -> Some("[redacted]")
      [] ty = "int" -> Some("0")
      [] ty = "float" -> Some("0.123")
      [] ty = "uuid" -> Some(NilUuid)
      [] ty = "datetime" -> Some("1970-01-01T00:00:00Z")
      [] ty = "time" -> Some("00:00:00")
      [] ty = "date" -> Some("1970-01-01")
      [] ty = "duration" -> Some("55:55:55")
      [] OTHER -> None

\* scrub_node with an UPDATE that has no WHERE clause
scrub_node_every_row(w, node_id, ty) ==
    IF w.panicked \/ scrub_value(ty) = None \/ node_id \notin DOMAIN w.db.nodes THEN w
    ELSE [w EXCEPT !.db.nodes = [n \in DOMAIN @ |->
                                    [@[n] EXCEPT !.node_value = scrub_value(ty)]]]

\* redact.rs:24-57
scrub_node(w, node_id, ty) ==
    IF w.panicked \/ scrub_value(ty) = None \/ node_id \notin DOMAIN w.db.nodes THEN w
    ELSE [w EXCEPT !.db.nodes[node_id].node_value = scrub_value(ty)]

\* redact.rs:59-77
mask_node(d, w, node_id, ty, ropts, seed) ==
    IF w.panicked \/ ~(ropts.mask.uuids /\ ty = "uuid") THEN w
    ELSE IF node_id \notin DOMAIN d.nodes \/ d.nodes[node_id].node_value = None
    THEN Panicked(w)
    ELSE IF node_id \notin DOMAIN w.db.nodes THEN w
    ELSE [w EXCEPT !.db.nodes[node_id].node_value =
                        Some(UuidV5(seed, Trim(d.nodes[node_id].node_value[1])))]

\* redact.rs:79-112
scrub_attr(w, attr_id, ty) ==
    IF w.panicked \/ scrub_value(ty) = None \/ attr_id \notin 1..Len(w.db.attrs) THEN w
    ELSE [w EXCEPT !.db.attrs[attr_id].attr_value = scrub_value(ty)[1]]

\* redact.rs:114-132
mask_attr(d, w, attr_id, ty, ropts, seed) ==
    IF w.panicked \/ ~(ropts.mask.uuids /\ ty = "uuid") THEN w
    ELSE IF attr_id \notin 1..Len(d.attrs) THEN Panicked(w)
    ELSE IF attr_id \notin 1..Len(w.db.attrs) THEN w
    ELSE [w EXCEPT !.db.attrs[attr_id].attr_value =
                        UuidV5(seed, d.attrs[attr_id].attr_value)]

\* redact.rs:168-186 and 200-218: the loop over the child nodes from
\* position i on.  ty_node is Some(id) where the loop takes the type of
\* the node id (line 170) and None where it takes the child's (line 202).
RECURSIVE redact_child_nodes(_, _, _, _, _, _, _)
redact_child_nodes(d, w, kids, i, ty_node, ropts, seed) ==
    IF i > Len(kids) \/ w.panicked THEN w
    ELSE LET kid == kids[i]
             ty == inferred_type(d, IF ty_node = None THEN kid.node_id ELSE ty_node[1])
         IN  IF ty.kind # "ok" THEN Panicked(w)
             ELSE redact_child_nodes(d,
                    IF kid.node_type \in {Text, Comment, CData}
                    THEN scrub_node(mask_node(d, w, kid.node_id, ty.val, ropts, seed),
                                    kid.node_id, ty.val)
                    ELSE w,
                    kids, i + 1, ty_node, ropts, seed)

\* redact.rs:188-194 and 221-230: the loop over the attributes from
\* position i on; allowed is rule.attrs, and {} without a rule
RECURSIVE redact_attrs(_, _, _, _, _, _, _)
redact_attrs(d, w, as, i, allowed, ropts, seed) ==
    IF i > Len(as) \/ w.panicked THEN w
    ELSE LET ty == attr_inferred_type(d, as[i].attr_id)
         IN  IF ty.kind # "ok" THEN Panicked(w)
             ELSE redact_attrs(d,
                    IF as[i].name \notin allowed
                    THEN scrub_attr(mask_attr(d, w, as[i].attr_id, ty.val, ropts, seed),
                                    as[i].attr_id, ty.val)
                    ELSE w,
                    as, i + 1, allowed, ropts, seed)

\* redact.rs:197-230, the body of the loop over the matched rules
redact_rule(d, w, node, ty, rule, ropts, seed) ==
    LET kids == child_nodes(d, node.node_id)
        w1 == IF rule.value THEN w
              ELSE IF kids.kind # "ok" THEN Panicked(w)
              ELSE redact_child_nodes(d, scrub_node(w, node.node_id, ty), kids.val, 1,
                                      None, ropts, seed)
        as == attrs(d, node.node_id)
    IN  IF w1.panicked THEN w1
        ELSE redact_attrs(d, w1, as.val, 1, rule.attrs, ropts, seed)

\* redact.rs:196-231: the loop over the matched rules from position i on
RECURSIVE redact_rules(_, _, _, _, _, _, _, _)
redact_rules(d, w, node, ty, rules, i, ropts, seed) ==
    IF i > Len(rules) \/ w.panicked THEN w
    ELSE redact_rules(d, redact_rule(d, w, node, ty, rules[i], ropts, seed),
                      node, ty, rules, i + 1, ropts, seed)

\* the filter keeping the first matching rule only
matched_rules_first(ropts, node) ==
    LET all == SelectSeq(ropts.ignore, LAMBDA x : x.tag = node.name)
    IN  IF all = <<>> THEN <<>> ELSE <<all[1]>>

\* redact.rs:155-159
matched_rules(ropts, node) ==
    SelectSeq(ropts.ignore, LAMBDA x : x.tag = node.name)

\* redact.rs:153-232, the body of the loop over the elements
redact_element(d, w, node, ropts, seed) ==
    LET matched == matched_rules(ropts, node)
        ty == inferred_type(d, node.node_id)
        kids == child_nodes(d, node.node_id)
        as == attrs(d, node.node_id)
    IN  IF ty.kind # "ok" THEN Panicked(w)
        ELSE LET w0 == mask_node(d, w, node.node_id, ty.val, ropts, seed)
             IN  IF matched # <<>>
                 THEN redact_rules(d, w0, node, ty.val, matched, 1, ropts, seed)
                 ELSE IF kids.kind # "ok" THEN Panicked(w0)
                 ELSE redact_attrs(d,
                        redact_child_nodes(d, scrub_node(w0, node.node_id, ty.val),
                                           kids.val, 1, Some(node.node_id), ropts, seed),
                        as.val, 1, {}, ropts, seed)

\* redact.rs:146-233: the loop over the elements from position i on
RECURSIVE redact_elements(_, _, _, _, _, _)
redact_elements(d, w, els, i, ropts, seed) ==
    IF i > Len(els) \/ w.panicked THEN w
    ELSE redact_elements(d, redact_element(d, w, els[i], ropts, seed), els, i + 1,
                         ropts, seed)

\* redact.rs:134-237, up to the commit
redact(d, out, ropts, seed) ==
    LET els == all_elements(d)
    IN  IF els.kind # "ok" THEN Panicked(Redacting(out))
        ELSE redact_elements(d, Redacting(out), els.val, 1, ropts, seed)

\* ------------------------------------------------------------------------
\* The loaded store: a load without faults, then one query or one redact
\* pass over the store.
\* ------------------------------------------------------------------------

\* parse (parse.rs:148-373) returning Ok: every token handled, every
\* message applied, the indexes added and the transaction committed
ParseDoc ==
    /\ ppc = "loop"
    /\ doc = <<>>
    /\ \E toks \in {t \in Docs : Tokenizes(t, 1, ts)} :
         /\ doc' = toks
         /\ ps' = produce_state(toks, 1, ps, options)
         /\ sent' = produce(toks, 1, ps, options)
         /\ db' = parse_store(toks, options)
    /\ ts' = [ts EXCEPT !.state = "End"]
    /\ chan' = <<>>
    /\ tx_alive' = FALSE
    /\ rx_alive' = FALSE
    /\ ppc' = "returned"
    /\ wpc' = "done"
    /\ indexes' = TRUE
    /\ committed' = TRUE
    /\ result' = "ok"
    /\ UNCHANGED options
    /\ UNCHANGED reader_vars

\* ids to ask about: every row and one id without a row
QueryIds == DOMAIN db.nodes \cup {Cardinality(DOMAIN db.nodes)}

QueryNames == {"a", "A", "r"}

\* one call of a traversal query on the loaded store
TraversalQuery ==
    /\ result = "ok"
    /\ obs = NoObs
    /\ redaction = NoRedaction
    /\ \E p \in QueryIds :
         \/ obs' = [op |-> "child_nodes", arg |-> p, name |-> "", res |-> child_nodes(db, p)]
         \/ obs' = [op |-> "children", arg |-> p, name |-> "", res |-> children(db, p)]
         \/ \E nm \in QueryNames :
              obs' = [op |-> "children_by_name", arg |-> p, name |-> nm,
                      res |-> children_by_name(db, p, nm, options)]
         \/ obs' = [op |-> "descendents", arg |-> p, name |-> "", res |-> descendents(db, p)]
         \/ obs' = [op |-> "descendent_nodes", arg |-> p, name |-> "",
                    res |-> descendent_nodes(db, p)]
         \/ obs' = [op |-> "all_elements", arg |-> 0, name |-> "", res |-> all_elements(db)]
         \/ obs' = [op |-> "all_nodes", arg |-> 0, name |-> "", res |-> all_nodes(db)]
    /\ UNCHANGED pipeline_vars
    /\ UNCHANGED <<redaction, out_db>>

\* one call of redact (redact.rs:134-237) with a copy of the loaded store
\* as out_db; a panic drops the open transaction
Redact ==
    /\ result = "ok"
    /\ obs = NoObs
    /\ redaction = NoRedaction
    /\ \E ropts \in RedactOptions, seed \in Seeds :
         LET w == redact(db, db, ropts, seed)
         IN  /\ redaction' = [state |-> IF w.panicked THEN "panic" ELSE "ok",
                              options |-> ropts, seed |-> seed]
             /\ out_db' \in IF w.panicked THEN AfterRollback(db, w.db) ELSE {w.db}
    /\ UNCHANGED pipeline_vars
    /\ UNCHANGED obs

\* the operations of TraversalQuery
TraversalOps ==
    {"child_nodes", "children", "children_by_name", "descendents", "descendent_nodes",
     "all_elements", "all_nodes"}

\* attribute names to ask for
AttrNames == {"x", "X", "y"}

\* one call of a read of DocumentDb that takes a node id
NodeQuery ==
    /\ result = "ok"
    /\ obs = NoObs
    /\ redaction = NoRedaction
    /\ \E p \in QueryIds :
         \/ obs' = [op |-> "prev_sibling_element_id", arg |-> p, name |-> "",
                    res |-> prev_sibling_element_id(db, p)]
         \/ obs' = [op |-> "next_sibling_element_id", arg |-> p, name |-> "",
                    res |-> next_sibling_element_id(db, p)]
         \/ obs' = [op |-> "has_children", arg |-> p, name |-> "",
                    res |-> has_children(db, p)]
         \/ obs' = [op |-> "parent_element_id", arg |-> p, name |-> "",
                    res |-> parent_element_id(db, p)]
         \/ obs' = [op |-> "element", arg |-> p, name |-> "", res |-> element(db, p)]
         \/ obs' = [op |-> "node", arg |-> p, name |-> "", res |-> node_by_id(db, p)]
         \/ obs' = [op |-> "buffer_position", arg |-> p, name |-> "",
                    res |-> buffer_position(db, p)]
         \/ obs' = [op |-> "attr", arg |-> p, name |-> "", res |-> attr(db, p)]
         \/ obs' = [op |-> "attrs", arg |-> p, name |-> "", res |-> attrs(db, p)]
         \/ obs' = [op |-> "inferred_type", arg |-> p, name |-> "",
                    res |-> inferred_type(db, p)]
         \/ obs' = [op |-> "attr_inferred_type", arg |-> p, name |-> "",
                    res |-> attr_inferred_type(db, p)]
         \/ \E nm \in AttrNames :
              \E r \in attr_by_name(db, p, nm, None, options) :
                 obs' = [op |-> "attr_by_name", arg |-> p, name |-> nm, res |-> r]
    /\ UNCHANGED pipeline_vars
    /\ UNCHANGED <<redaction, out_db>>

\* one call of a method of the selector adapter (select.rs:102-272) on an
\* ElementRef; the adapter is built on the elements descendents returns
AdapterQuery ==
    /\ result = "ok"
    /\ obs = NoObs
    /\ redaction = NoRedaction
    /\ all_elements(db).kind = "ok"
    /\ \E i \in 1..Len(all_elements(db).val) :
         LET el == all_elements(db).val[i]
         IN  \/ obs' = [op |-> "is_empty", arg |-> el.node_id, name |-> "",
                        res |-> is_empty(db, el)]
             \/ obs' = [op |-> "parent_element", arg |-> el.node_id, name |-> "",
                        res |-> parent_element(db, el)]
             \/ obs' = [op |-> "prev_sibling_element", arg |-> el.node_id, name |-> "",
                        res |-> prev_sibling_element(db, el)]
             \/ obs' = [op |-> "next_sibling_element", arg |-> el.node_id, name |-> "",
                        res |-> next_sibling_element(db, el)]
    /\ UNCHANGED pipeline_vars
    /\ UNCHANGED <<redaction, out_db>>

\* one call of match_all_from or match_one_from (select.rs:309-397)
SelectorQuery ==
    /\ result = "ok"
    /\ obs = NoObs
    /\ redaction = NoRedaction
    /\ \E p \in QueryIds, s \in Selectors :
         \/ obs' = [op |-> "match_all_from", arg |-> p, name |-> s.text,
                    res |-> match_all_from(db, s.list, p)]
         \/ obs' = [op |-> "match_one_from", arg |-> p, name |-> s.text,
                    res |-> match_one_from(db, s.list, p)]
    /\ UNCHANGED pipeline_vars
    /\ UNCHANGED <<redaction, out_db>>

NextStore ==
    \/ ParseDoc
    \/ TraversalQuery
    \/ NodeQuery
    \/ AdapterQuery
    \/ SelectorQuery
    \/ Redact

SpecStore == Init /\ [][NextStore]_vars

\* a load that returns Ok leaves the rows of the fold of the writer over
\* the producer's messages
ParseIsFold ==
    result = "ok" =>
        /\ db = parse_store(doc, options)
        /\ sent = produce(doc, 1, ParserState0, options)
        /\ ps = produce_state(doc, 1, ParserState0, options)
        /\ chan = <<>> /\ ~tx_alive /\ ~rx_alive /\ wpc = "done" /\ ppc = "returned"
        /\ indexes /\ committed /\ ts.state = "End"

\* ------------------------------------------------------------------------
\* Properties of the queries and of the redactor
\* ------------------------------------------------------------------------

\* C5: no traversal query (child_nodes, children, children_by_name,
\* descendents, descendent_nodes, all_elements, all_nodes) that returns
\* Ok has the document sentinel, node 0, in its result, for any argument,
\* parent id 0 included.
C5_NoSentinel ==
    (obs.op \in TraversalOps /\ obs.res.kind = "ok") =>
        \A i \in 1..Len(obs.res.val) : obs.res.val[i].node_id # 0

\* child_nodes(0) returned the top-level nodes of a loaded document: the
\* root element and one or more nodes beside it
C5_Witness ==
    /\ obs.op = "child_nodes"
    /\ obs.arg = 0
    /\ obs.res.kind = "ok"
    /\ Len(obs.res.val) >= 2
    /\ \E i \in 1..Len(obs.res.val) : obs.res.val[i].node_id = 1

\* the value scrub_node leaves in a row of type ty that held v
ScrubbedNodeValue(ty, v) == IF scrub_value(ty) = None THEN v ELSE scrub_value(ty)

\* the value scrub_attr leaves in a row of type ty that held v
ScrubbedAttrValue(ty, v) == IF scrub_value(ty) = None THEN v ELSE scrub_value(ty)[1]

\* the text, CDATA and comment rows under the element e
ValueChildren(e) ==
    {n \in DOMAIN db.nodes : /\ db.nodes[n].parent_node_id = e
                             /\ n # 0
                             /\ db.nodes[n].node_type \in {Text, CData, Comment}}

\* the rows of the elements of the loaded store
ElementRows == {e \in DOMAIN db.nodes : db.nodes[e].node_type = Element}

\* C8: after redact without ignore rules and with mask.uuids off, on a
\* store with inferred types, every text, CDATA and comment child of
\* every element and every attribute holds the scrub literal of its own
\* inferred type, and its old value where that type is Empty, Whitespace,
\* Boolean or Json.
C8_ScrubByOwnType ==
    (/\ redaction.state = "ok"
     /\ redaction.options.ignore = <<>>
     /\ ~redaction.options.mask.uuids) =>
        /\ \A e \in ElementRows : \A n \in ValueChildren(e) :
              out_db.nodes[n].node_value =
                  ScrubbedNodeValue(db.nodes[n].inferred_type[1], db.nodes[n].node_value)
        /\ \A k \in 1..Len(db.attrs) :
              out_db.attrs[k].attr_value =
                  ScrubbedAttrValue(db.attrs[k].inferred_type[1], db.attrs[k].attr_value)

\* C9: with mask.uuids set, every value of inferred type Uuid that redact
\* rewrote equals UUIDv5(seed, trimmed old value) for the seed of the
\* pass, not the nil UUID.
C9_MaskUuids ==
    (redaction.state = "ok" /\ redaction.options.mask.uuids) =>
        /\ \A e \in ElementRows : \A n \in ValueChildren(e) :
              (/\ db.nodes[n].inferred_type = Some("uuid")
               /\ out_db.nodes[n].node_value # db.nodes[n].node_value) =>
                  out_db.nodes[n].node_value =
                      Some(UuidV5(redaction.seed, Trim(db.nodes[n].node_value[1])))
        /\ \A k \in 1..Len(db.attrs) :
              (/\ db.attrs[k].inferred_type = Some("uuid")
               /\ out_db.attrs[k].attr_value # db.attrs[k].attr_value) =>
                  out_db.attrs[k].attr_value =
                      UuidV5(redaction.seed, Trim(db.attrs[k].attr_value))

\* the ignore rules of the pass that match the element e
MatchingRules(e) ==
    {redaction.options.ignore[i] : i \in
        {j \in 1..Len(redaction.options.ignore) :
            Some(redaction.options.ignore[j].tag) = db.nodes[e].node_name}}

\* C10: for an element matched by one or more ignore rules, redact leaves
\* the element's value and its text, CDATA and comment children as they
\* were if every matching rule has value = true and scrubs them by their
\* own type otherwise; it leaves an attribute as it was if its name is in
\* attrs of every matching rule and scrubs it by its own type otherwise.
C10_RuleIntersection ==
    redaction.state = "ok" =>
        \A e \in ElementRows : MatchingRules(e) # {} =>
            /\ out_db.nodes[e].node_value =
                  IF \A r \in MatchingRules(e) : r.value THEN db.nodes[e].node_value
                  ELSE ScrubbedNodeValue(db.nodes[e].inferred_type[1],
                                         db.nodes[e].node_value)
            /\ \A n \in ValueChildren(e) :
                  out_db.nodes[n].node_value =
                      IF \A r \in MatchingRules(e) : r.value THEN db.nodes[n].node_value
                      ELSE ScrubbedNodeValue(db.nodes[n].inferred_type[1],
                                             db.nodes[n].node_value)
            /\ \A k \in 1..Len(db.attrs) : db.attrs[k].parent_node_id = e =>
                  out_db.attrs[k].attr_value =
                      IF \A r \in MatchingRules(e) : db.attrs[k].attr_name \in r.attrs
                      THEN db.attrs[k].attr_value
                      ELSE ScrubbedAttrValue(db.attrs[k].inferred_type[1],
                                             db.attrs[k].attr_value)

\* a pass with two rules for one element, the first allowing the value
\* and the attribute x and the second neither, that rewrote a text child
\* and the attribute x of the element and kept a comment of another type
C10_Witness ==
    /\ redaction.state = "ok"
    /\ Len(redaction.options.ignore) = 2
    /\ redaction.options.ignore[1] = [tag |-> "a", value |-> TRUE, attrs |-> {"x"}]
    /\ redaction.options.ignore[2] = [tag |-> "a", value |-> FALSE, attrs |-> {}]
    /\ \E e \in ElementRows :
          /\ db.nodes[e].node_name = Some("a")
          /\ \E n \in ValueChildren(e) :
                /\ db.nodes[n].node_type = Text
                /\ out_db.nodes[n].node_value # db.nodes[n].node_value
          /\ \E k \in 1..Len(db.attrs) :
                /\ db.attrs[k].parent_node_id = e
                /\ db.attrs[k].attr_name = "x"
                /\ out_db.attrs[k].attr_value # db.attrs[k].attr_value

\* C11: a redact pass changes nothing but node_value of node rows and
\* attr_value of attribute rows: the node ids and attr ids, and every
\* parent_node_id, node_order, attr_order, node_type, name, namespace and
\* inferred_type are as before, and the node_value of element rows stays
\* null.
C11_RedactFrame ==
    redaction.state # "none" =>
        /\ DOMAIN out_db.nodes = DOMAIN db.nodes
        /\ Len(out_db.attrs) = Len(db.attrs)
        /\ \A n \in DOMAIN db.nodes :
              [out_db.nodes[n] EXCEPT !.node_value = db.nodes[n].node_value] = db.nodes[n]
        /\ \A k \in 1..Len(db.attrs) :
              [out_db.attrs[k] EXCEPT !.attr_value = db.attrs[k].attr_value] = db.attrs[k]
        /\ \A e \in ElementRows : out_db.nodes[e].node_value = None

\* a pass that rewrote a text node and an attribute of an element
C11_Witness ==
    /\ redaction.state = "ok"
    /\ \E n \in DOMAIN db.nodes :
          /\ db.nodes[n].node_type = Text
          /\ out_db.nodes[n].node_value # db.nodes[n].node_value
    /\ \E k \in 1..Len(db.attrs) : out_db.attrs[k].attr_value # db.attrs[k].attr_value

\* the rows beside n under its parent
Siblings(n) ==
    {m \in DOMAIN db.nodes \ {0, n} :
        db.nodes[m].parent_node_id = db.nodes[n].parent_node_id}

\* C12: for a node with a sibling of smaller node_order, prev_sibling
\* returns the id of the sibling with the greatest node_order below its
\* own, a sibling id and not the parent's; next_sibling returns the id of
\* the sibling with the smallest node_order above; each fails where there
\* is no such sibling.
C12_SiblingIds ==
    (obs.arg \in DOMAIN db.nodes \ {0}) =>
        /\ obs.op = "prev_sibling_element_id" =>
              LET before == {m \in Siblings(obs.arg) :
                                db.nodes[m].node_order < db.nodes[obs.arg].node_order}
              IN  IF before = {} THEN obs.res.kind = "err"
                  ELSE /\ obs.res.kind = "ok"
                       /\ obs.res.val \in before
                       /\ \A m \in before :
                             db.nodes[m].node_order <= db.nodes[obs.res.val].node_order
        /\ obs.op = "next_sibling_element_id" =>
              LET after == {m \in Siblings(obs.arg) :
                               db.nodes[m].node_order > db.nodes[obs.arg].node_order}
              IN  IF after = {} THEN obs.res.kind = "err"
                  ELSE /\ obs.res.kind = "ok"
                       /\ obs.res.val \in after
                       /\ \A m \in after :
                             db.nodes[obs.res.val].node_order <= db.nodes[m].node_order

\* C13: is_empty of the selector adapter is true for an element exactly
\* when no node row has the element as its parent.
C13_IsEmpty ==
    obs.op = "is_empty" =>
        /\ obs.res.kind = "ok"
        /\ obs.res.val = ~(\E n \in DOMAIN db.nodes : db.nodes[n].parent_node_id = obs.arg)

\* the node ids of a list of elements
IdsOf(els) == {els[i].node_id : i \in 1..Len(els)}

\* the elements named child whose parent row is an element named parent
ChildrenNamed(parent, child) ==
    {e \in ElementRows :
        /\ db.nodes[e].node_name = Some(child)
        /\ db.nodes[e].parent_node_id \in ElementRows
        /\ db.nodes[db.nodes[e].parent_node_id].node_name = Some(parent)}

\* C14: match_all of the selector "r > a" on the document, where it
\* returns, returns exactly the elements named a whose parent is an
\* element named r: an a that is a grandchild of r through a b is not
\* returned, and every a that is a child of an r is.
C14_ChildCombinator ==
    (/\ obs.op = "match_all_from"
     /\ obs.name = "r > a"
     /\ obs.arg = 0
     /\ obs.res.kind = "ok") =>
        /\ IdsOf(obs.res.val) = ChildrenNamed("r", "a")
        /\ \A i \in 1..Len(obs.res.val) :
              obs.res.val[i] = element_record(db.nodes, obs.res.val[i].node_id)

\* "r > a" matched on a document with two or more a under an r and an a
\* under a b under the root r
C14_Witness ==
    /\ obs.op = "match_all_from"
    /\ obs.name = "r > a"
    /\ obs.arg = 0
    /\ obs.res.kind = "ok"
    /\ Len(obs.res.val) >= 2
    /\ \E e \in ChildrenNamed("b", "a") :
          db.nodes[db.nodes[e].parent_node_id].parent_node_id = 1

\* C15: match_all of "*" on the document, where it returns, returns
\* every element of the document, the root element included, each once:
\* the ids of its result are the ids of the rows of type Element.
C15_Universal ==
    (/\ obs.op = "match_all_from"
     /\ obs.name = "*"
     /\ obs.arg = 0
     /\ obs.res.kind = "ok") =>
        /\ IdsOf(obs.res.val) = ElementRows
        /\ Cardinality(IdsOf(obs.res.val)) = Len(obs.res.val)
        /\ \A i \in 1..Len(obs.res.val) :
              obs.res.val[i] = element_record(db.nodes, obs.res.val[i].node_id)

\* "*" matched on a document whose root has element children and
\* grandchildren
C15_Witness ==
    /\ obs.op = "match_all_from"
    /\ obs.name = "*"
    /\ obs.arg = 0
    /\ obs.res.kind = "ok"
    /\ 1 \in IdsOf(obs.res.val)
    /\ \E e \in IdsOf(obs.res.val) : db.nodes[e].parent_node_id >= 2

\* the selector of the model written as text
SelectorOf(text) == CHOOSE s \in Selectors : s.text = text

\* C16: for every selector and start node, where match_one and match_all
\* both return, match_one returns None exactly when match_all is empty and
\* otherwise Some of the first element of match_all.
C16_MatchOneFirst ==
    (/\ obs.op = "match_one_from"
     /\ obs.res.kind = "ok"
     /\ match_all_from(db, SelectorOf(obs.name).list, obs.arg).kind = "ok") =>
        LET all == match_all_from(db, SelectorOf(obs.name).list, obs.arg).val
        IN  IF all = <<>> THEN obs.res.val = None
            ELSE obs.res.val = Some(all[1])

\* match_one returned an element where match_all returns two or more, and
\* from a start node that is not the document
C16_Witness ==
    /\ obs.op = "match_one_from"
    /\ obs.res.kind = "ok"
    /\ obs.res.val # None
    /\ obs.arg = 1
    /\ match_all_from(db, SelectorOf(obs.name).list, obs.arg).kind = "ok"
    /\ Len(match_all_from(db, SelectorOf(obs.name).list, obs.arg).val) >= 2

\* the attributes attrs returns for the node n
AttrsOf(n) == {attrs(db, n).val[i] : i \in 1..Len(attrs(db, n).val)}

\* C17 as stated: attr_by_name(n, k, None) = Some(a) if and only if a is
\* in attrs(n) with a.name = k and a.ns = None, for every stored
\* attribute, elements with a repeated attribute name included.
C17_AttrByNameIff ==
    obs.op = "attr_by_name" =>
        /\ obs.res.kind = "ok"
        /\ obs.res.val # None =>
              /\ obs.res.val[1] \in AttrsOf(obs.arg)
              /\ obs.res.val[1].name = obs.name
              /\ obs.res.val[1].ns = None
        /\ \A a \in AttrsOf(obs.arg) :
              (a.name = obs.name /\ a.ns = None) => obs.res.val = Some(a)

\* the name attr_by_name looks for: the name asked for, lowercased in a
\* case-insensitive store
WantedName(k) == IF options.case_insensitive THEN ToLower(k) ELSE k

\* C17: attr_by_name(n, k, None) returns None exactly when no attribute
\* of attrs(n) has the name looked for and no namespace, and otherwise
\* Some of one of these attributes.
C17_AttrByName ==
    obs.op = "attr_by_name" =>
        LET named == {a \in AttrsOf(obs.arg) :
                         a.name = WantedName(obs.name) /\ a.ns = None}
        IN  /\ obs.res.kind = "ok"
            /\ IF named = {} THEN obs.res.val = None
               ELSE obs.res.val # None /\ obs.res.val[1] \in named

\* attr_by_name returned one of two attributes of the name on the element,
\* which also has an attribute of that name with a prefix
C17_Witness ==
    /\ obs.op = "attr_by_name"
    /\ obs.res.kind = "ok"
    /\ obs.res.val # None
    /\ Cardinality({a \in AttrsOf(obs.arg) :
                       a.name = WantedName(obs.name) /\ a.ns = None}) >= 2
    /\ \E a \in AttrsOf(obs.arg) : a.name = WantedName(obs.name) /\ a.ns # None

\* C18: for every node id p, where the calls return, descendents(p) holds
\* every element of children(p), and with an element e every element of
\* children(e); p itself is not in descendents(p).
C18_DescendentsClosed ==
    (obs.op = "descendents" /\ obs.res.kind = "ok") =>
        /\ children(db, obs.arg).kind = "ok" =>
              IdsOf(children(db, obs.arg).val) \subseteq IdsOf(obs.res.val)
        /\ \A e \in IdsOf(obs.res.val) :
              children(db, e).kind = "ok" =>
                  IdsOf(children(db, e).val) \subseteq IdsOf(obs.res.val)
        /\ obs.arg \notin IdsOf(obs.res.val)

\* descendents of the root element returned children and grandchildren of
\* it
C18_Witness ==
    /\ obs.op = "descendents"
    /\ obs.arg = 1
    /\ obs.res.kind = "ok"
    /\ children(db, 1).kind = "ok"
    /\ children(db, 1).val # <<>>
    /\ \E e \in IdsOf(obs.res.val) : db.nodes[e].parent_node_id >= 2

\* the string holds no uppercase letter
IsLowercase(str) == ToLower(str) = str

\* C19: after an ingest with case_insensitive every stored element name,
\* element prefix, attribute name, attribute prefix and the content of
\* every stored text node is lowercase.
C19_Lowercased ==
    (options.case_insensitive /\ result = "ok") =>
        /\ \A n \in DOMAIN db.nodes :
              /\ db.nodes[n].node_name # None => IsLowercase(db.nodes[n].node_name[1])
              /\ db.nodes[n].node_ns # None => IsLowercase(db.nodes[n].node_ns[1])
              /\ db.nodes[n].node_type = Text => IsLowercase(db.nodes[n].node_value[1])
        /\ \A k \in 1..Len(db.attrs) :
              /\ IsLowercase(db.attrs[k].attr_name)
              /\ db.attrs[k].attr_ns # None => IsLowercase(db.attrs[k].attr_ns[1])

\* InferredType (infer.rs:3-17), as as_str writes it
InferredTags ==
    {"empty", "whitespace", "string", "boolean", "int", "float", "uuid", "datetime",
     "time", "date", "duration", "json"}

\* C20: in a store created with infer_types every node row holds the
\* classification of its node_value, Empty for a null one, and every attr
\* row that of its attr_value, one of the twelve tags; in a store created
\* without it no row has an inferred_type, and inferred_type(node_id) and
\* attr_inferred_type(attr_id) fail.
C20_InferredTypes ==
    result = "ok" =>
        /\ options.infer_types =>
              /\ \A n \in DOMAIN db.nodes :
                    /\ db.nodes[n].inferred_type =
                          Some(IF db.nodes[n].node_value = None THEN "empty"
                               ELSE infer_type(db.nodes[n].node_value[1]))
                    /\ db.nodes[n].inferred_type[1] \in InferredTags
              /\ \A k \in 1..Len(db.attrs) :
                    /\ db.attrs[k].inferred_type = Some(infer_type(db.attrs[k].attr_value))
                    /\ db.attrs[k].inferred_type[1] \in InferredTags
        /\ ~options.infer_types =>
              /\ \A n \in DOMAIN db.nodes : db.nodes[n].inferred_type = None
              /\ \A k \in 1..Len(db.attrs) : db.attrs[k].inferred_type = None
        /\ obs.op = "inferred_type" =>
              IF options.infer_types /\ obs.arg \in DOMAIN db.nodes
              THEN obs.res = QOk(db.nodes[obs.arg].inferred_type[1])
              ELSE obs.res.kind = "err"
        /\ obs.op = "attr_inferred_type" =>
              IF options.infer_types /\ obs.arg \in 1..Len(db.attrs)
              THEN obs.res = QOk(db.attrs[obs.arg].inferred_type[1])
              ELSE obs.res.kind = "err"

\* attr_inferred_type returned json for an attribute whose value is a
\* number between blanks, in a store that also holds a text node typed
\* string
C20_Witness ==
    /\ result = "ok"
    /\ options.infer_types
    /\ obs.op = "attr_inferred_type"
    /\ obs.res = QOk("json")
    /\ db.attrs[obs.arg].attr_value = " 42 "
    /\ \E n \in DOMAIN db.nodes :
          db.nodes[n].node_type = Text /\ db.nodes[n].inferred_type = Some("string")

\* the single-row reads that take a node id, and the reads that return a
\* sequence
SingleRowOps ==
    {"parent_element_id", "prev_sibling_element_id", "next_sibling_element_id",
     "element", "node", "buffer_position"}

SequenceOps == {"child_nodes", "children", "children_by_name", "descendents", "attrs"}

ValueTypes == {Text, CData, Comment, Declaration, Doctype, ProcessingInstruction}

\* C22: after an ingest that returned Ok, every row of type Text, CData,
\* Comment, Declaration, Doctype or ProcessingInstruction has a node_value
\* that is not NULL, and every row of type Element has a node_name that is
\* not NULL.
C22_ValuesPresent ==
    result = "ok" =>
        \A n \in DOMAIN db.nodes :
            /\ db.nodes[n].node_type \in ValueTypes => db.nodes[n].node_value # None
            /\ db.nodes[n].node_type = Element => db.nodes[n].node_name # None

\* ------------------------------------------------------------------------
\* Termination of the ingest.  The producer runs on the calling thread and
\* the writer on the spawned thread (parse.rs:153); the operating system
\* schedules each of them as long as it can take a step.
\* ------------------------------------------------------------------------

\* the steps of the calling thread
Producer ==
    \/ ProducerToken
    \/ ProducerSendFails
    \/ ProducerTokenError
    \/ ProducerEof
    \/ ProducerJoin

\* the steps of the spawned thread
Writer ==
    \/ WriterRecv
    \/ WriterSqlError
    \/ WriterClosed
    \/ WriterAddIndexes
    \/ WriterCommit
    \/ WriterPanic

\* ParseOptions::default() (parse.rs:126): the options decide the text of
\* the rows, not the steps of the threads
InitLive ==
    /\ Init
    /\ options = [ignore_whitespace |-> FALSE, infer_types |-> FALSE,
                  case_insensitive |-> FALSE]

SpecLive == InitLive /\ [][Next]_vars /\ WF_vars(Producer) /\ WF_vars(Writer)

\* a send would block: the channel is full and the Receiver lives
\* (crossbeam_channel::Sender::send on a bounded channel)
SendBlocks == ppc = "loop" /\ Len(chan) = ChanCap /\ rx_alive

\* recv blocks: the channel is empty and the Sender lives
RecvBlocks == wpc = "recv" /\ chan = <<>> /\ tx_alive

\* parse has returned and the writer thread has ended
Terminated == ppc = "returned" /\ wpc \in {"done", "failed", "panicked"}

\* C23: under fair scheduling of the two threads the ingest terminates; a
\* send that blocks on the full channel is released by the writer taking a
\* message or by the writer's exit, a recv that blocks on the empty channel
\* is released by a message or by the drop of the Sender, and in no state
\* do both block.
C23_Terminates ==
    /\ <>Terminated
    /\ SendBlocks ~> (Len(chan) < ChanCap \/ ~rx_alive)
    /\ RecvBlocks ~> (chan # <<>> \/ ~tx_alive)
    /\ [](~(SendBlocks /\ RecvBlocks))

\* the channel was full under a producer in its loop, and the ingest
\* ended with Ok
C23_Witness ==
    /\ result = "ok"
    /\ Terminated
    /\ Len(sent) > ChanCap

\* the rows after the writer applied the first k messages the producer sent
AppliedPrefix(k) ==
    apply_all(EmptyStore(options.infer_types), SubSeq(sent, 1, k), 1, options.infer_types)

\* C24: the writer applies the messages in the order the producer sent
\* them, none lost, none twice: while the writer runs, the channel holds
\* the newest messages sent, in order, and the rows are those of applying
\* the messages before them, in order; in every state the rows are those of
\* a prefix of the messages sent (none after a rollback); after an ingest
\* that returned Ok they are the rows of all messages sent.
C24_WriterOrder ==
    /\ Len(chan) <= Len(sent)
    /\ wpc \in {"recv", "indexes", "commit", "done"} =>
          /\ chan = SubSeq(sent, Len(sent) - Len(chan) + 1, Len(sent))
          /\ db = AppliedPrefix(Len(sent) - Len(chan))
    /\ \E k \in 0..Len(sent) : db = AppliedPrefix(k)
    /\ result = "ok" => (chan = <<>> /\ db = AppliedPrefix(Len(sent)))

\* an ingest returned Ok after the writer applied an InsertRootElement, an
\* InsertAttr and an InsertNode, and the channel once held two of them
C24_Witness ==
    /\ result = "ok"
    /\ Len(sent) >= 3
    /\ \E i, j, k \in 1..Len(sent) :
          /\ sent[i].kind = "InsertRootElement"
          /\ sent[j].kind = "InsertAttr"
          /\ sent[k].kind = "InsertNode"
    /\ Len(db.attrs) > 0
    /\ Cardinality(DOMAIN db.nodes) > 2

\* the InsertNode messages the producer has sent, in order
SentNodes == SelectSeq(sent, LAMBDA m : m.kind = "InsertNode")

\* C25: the i-th InsertNode the producer sends carries node id i + 1: the
\* ids start at 2 and grow by one per node in source order, none is used
\* twice, 0 and 1 are never given, InsertRootElement and InsertAttr take no
\* id (the counter is 2 plus the number of InsertNode sent), and the id of
\* a node is greater than the id of its parent.
C25_NodeIds ==
    /\ \A i \in 1..Len(SentNodes) :
          /\ SentNodes[i].node_id = i + 1
          /\ SentNodes[i].parent_node_id < SentNodes[i].node_id
    /\ ps.node_id_count = 2 + Len(SentNodes)

\* the producer has sent the root element, an attribute and two or more
\* nodes, one of them under an element that is not the root
C25_Witness ==
    /\ Len(SentNodes) >= 2
    /\ \E i \in 1..Len(sent) : sent[i].kind = "InsertRootElement"
    /\ \E i \in 1..Len(sent) : sent[i].kind = "InsertAttr"
    /\ \E i \in 1..Len(SentNodes) : SentNodes[i].parent_node_id >= 2

\* C26: the writer creates the indexes only after it applied the last
\* message sent and saw the channel closed, and commits only after the
\* indexes: wherever the writer is past its loop, has created the indexes
\* or has committed, the channel is empty, the Sender is dropped and the
\* rows are those of every message sent; a commit implies the indexes.
C26_IndexesAfterDrain ==
    /\ (wpc \in {"indexes", "commit", "done"} \/ indexes \/ committed) =>
          /\ chan = <<>>
          /\ ~tx_alive
          /\ db = AppliedPrefix(Len(sent))
    /\ indexes => wpc \in {"commit", "done"}
    /\ committed => (indexes /\ wpc = "done")

\* the writer has committed after the indexes, having applied three or
\* more messages
C26_Witness ==
    /\ committed
    /\ indexes
    /\ wpc = "done"
    /\ Len(sent) >= 3

\* the node type of the row a token becomes (parse.rs:206-265, 329-364);
\* a doctype is the token DtdStart or, without an internal subset, EmptyDtd
NodeTypeOfToken(kind) ==
    CASE kind = "Text" -> Text
      [] kind = "Cdata" -> CData
      [] kind = "Comment" -> Comment
      [] kind = "Declaration" -> Declaration
      [] kind = "ProcessingInstruction" -> ProcessingInstruction
      [] OTHER -> Doctype

\* the position in doc (from 1) of the start tag of the innermost element
\* open before the token at position i, 0 at document level: the scan goes
\* back from j and skips the elements whose end it has met
RECURSIVE OpenElementBefore(_, _)
OpenElementBefore(j, closed) ==
    IF j = 0 THEN 0
    ELSE IF doc[j].kind = "ElementEnd" /\ doc[j].text \in {"Close", "Empty"}
         THEN OpenElementBefore(j - 1, closed + 1)
    ELSE IF doc[j].kind = "ElementStart"
         THEN IF closed = 0 THEN j ELSE OpenElementBefore(j - 1, closed - 1)
    ELSE OpenElementBefore(j - 1, closed)

\* the messages sent for the token at position i of doc
SentFor(i) == SelectSeq(sent, LAMBDA m : m.buffer_position = i - 1)

\* the node id of the element whose start tag is at position j of doc, 0
\* for j = 0
ElementIdAt(j) ==
    IF j = 0 THEN 0
    ELSE IF SentFor(j)[1].kind = "InsertRootElement" THEN 1
    ELSE SentFor(j)[1].node_id

\* the order slots taken under the element open before position i by the
\* tokens before i: one per node, element and attribute sent with that
\* parent
SlotsTakenBefore(i) ==
    Cardinality({k \in 1..Len(sent) :
        /\ sent[k].buffer_position < i - 1
        /\ IF sent[k].kind = "InsertRootElement" THEN OpenElementBefore(i - 1, 0) = 0
           ELSE sent[k].parent_node_id = ElementIdAt(OpenElementBefore(i - 1, 0))})

\* every token of doc whose kind is in kinds became exactly one InsertNode
\* of its node type, under the element open at the token, with the next
\* node id and the next order slot of that element, and, for Text, Cdata
\* and Comment, with the text of the token, trimmed if ignore_whitespace
TokensBecomeNodes(kinds) ==
    \A i \in 1..Len(doc) :
        doc[i].kind \in kinds =>
            /\ Len(SentFor(i)) = 1
            /\ LET m == SentFor(i)[1]
               IN  /\ m.kind = "InsertNode"
                   /\ m.node_type = NodeTypeOfToken(doc[i].kind)
                   /\ m.parent_node_id = ElementIdAt(OpenElementBefore(i - 1, 0))
                   /\ m.node_id = 2 + Cardinality({k \in 1..Len(sent) :
                                        /\ sent[k].kind = "InsertNode"
                                        /\ sent[k].buffer_position < i - 1})
                   /\ m.order = SlotsTakenBefore(i)
                   /\ doc[i].kind \in {"Text", "Cdata", "Comment"} =>
                         m.node_value = Some(IF options.ignore_whitespace
                                             THEN Trim(doc[i].text) ELSE doc[i].text)

\* C27: every Text, CData, Comment, Declaration, Doctype and
\* ProcessingInstruction token the producer has taken became exactly one
\* InsertNode of its node type whose parent is the element open at the
\* token (0 at document level), with one node id and one order slot; a
\* text, CDATA section or comment that trims to the empty string is sent
\* with the empty value.
C27_NodeTokens ==
    TokensBecomeNodes({"Text", "Cdata", "Comment", "Declaration", "ProcessingInstruction",
                       "DtdStart", "EmptyDtd"})

\* the same for the tokens but EmptyDtd, the doctype without an internal
\* subset
C27_NodeTokensButEmptyDtd ==
    TokensBecomeNodes({"Text", "Cdata", "Comment", "Declaration", "ProcessingInstruction",
                       "DtdStart"})

\* a comment that trims to the empty string was sent with the empty value
\* beside a text node under the root element
C27_TrimmedEmptySent ==
    /\ options.ignore_whitespace
    /\ \E i \in 1..Len(sent) : sent[i].node_type = Comment /\ sent[i].node_value = Some("")
    /\ \E i \in 1..Len(sent) : sent[i].node_type = Text /\ sent[i].parent_node_id = 1

\* the positions in doc (from 0) of the Attribute tokens, in source order
AttrTokens ==
    SelectSeq([i \in 1..Len(doc) |-> i - 1], LAMBDA p : doc[p + 1].kind = "Attribute")

\* C28: after an ingest that returned Ok the attrs table has one row per
\* Attribute token, in source order, with the token's value, whether or
\* not the element has an attribute of that name already; attr_id (the
\* index of the row) and attr_order both increase strictly in source order
\* among the attributes of one element.
C28_AttrsNoDedup ==
    /\ result = "ok" =>
          /\ Len(db.attrs) = Len(AttrTokens)
          /\ \A k \in 1..Len(db.attrs) :
                /\ db.attrs[k].buffer_position = AttrTokens[k]
                /\ db.attrs[k].attr_value = doc[AttrTokens[k] + 1].text
                /\ db.attrs[k].attr_name = mutate_text(doc[AttrTokens[k] + 1].local, options)
    /\ \A k, l \in 1..Len(db.attrs) :
          (k < l /\ db.attrs[k].parent_node_id = db.attrs[l].parent_node_id) =>
              /\ db.attrs[k].attr_order < db.attrs[l].attr_order
              /\ db.attrs[k].buffer_position < db.attrs[l].buffer_position

\* an element is stored with two attributes of one name and no prefix, and
\* with different values
C28_Witness ==
    /\ result = "ok"
    /\ \E k, l \in 1..Len(db.attrs) :
          /\ k < l
          /\ db.attrs[k].parent_node_id = db.attrs[l].parent_node_id
          /\ db.attrs[k].attr_name = db.attrs[l].attr_name
          /\ db.attrs[k].attr_ns = None
          /\ db.attrs[l].attr_ns = None
          /\ db.attrs[k].attr_value # db.attrs[l].attr_value

\* the calls of the selector adapter that lead to another element
AdapterWalks == {"parent_element", "prev_sibling_element", "next_sibling_element"}

\* C29: the adapter answers 'no element' for the parent of the root
\* element and for a sibling that is not an element, and match_all_from
\* and match_one_from return for every loaded document and selector: no
\* call of them aborts.
C29_NoAbort ==
    obs.op \in AdapterWalks \cup {"match_all_from", "match_one_from"} =>
        obs.res.kind # "panic"

\* C30: the recursive walk behind descendents(p) and descendent_nodes(p)
\* ends for every loaded store and every p, p = 0 included, where row 0 is
\* its own parent: the rounds of the recursive select reach a round
\* without a new id, the ids visited are the closure of {p} under 'is the
\* parent of', and descendents reports no element twice.
C30_WalkTerminates ==
    obs.op \in {"descendents", "descendent_nodes"} =>
        LET w == cte_walk(db.nodes, {obs.arg}, {obs.arg}, 0)
        IN  /\ w.terminated
            /\ w.visited = descendents_cte(db.nodes, {obs.arg})
            /\ (obs.op = "descendents" /\ obs.res.kind = "ok") =>
                  \A i, j \in 1..Len(obs.res.val) :
                      i # j => obs.res.val[i].node_id # obs.res.val[j].node_id

\* descendents(0) returned the elements of a document with elements three
\* levels under the root, after a walk that met row 0 again as a child of
\* row 0
C30_Witness ==
    /\ obs.op = "descendents"
    /\ obs.arg = 0
    /\ obs.res.kind = "ok"
    /\ Len(obs.res.val) >= 4
    /\ db.nodes[0].parent_node_id = 0
    /\ cte_walk(db.nodes, {0}, {0}, 0).rounds >= 4

====
